---- MODULE Spec2Model ----
(***************************************************************************)
(* Model of the FalkorDB MCP server's trust and session boundary:          *)
(*   - the HTTP multi-session transport manager of src/src/index.ts        *)
(*     (startHTTPServer and the process-level error handlers), and         *)
(*   - the tenant-aware graph-name resolution of TenantGraphService        *)
(*     (src/unnamed/part_002).                                             *)
(*                                                                         *)
(* Every `await` of the request handler is a suspension point: the code    *)
(* between two awaits runs as one atomic action, and other handlers, the   *)
(* transport's close callback and the process-level handlers may run       *)
(* between two actions.  The state keeps the handlers in flight and the     *)
(* request whose handler returned last; a request's fields are filled in   *)
(* when the handler reads them.                                            *)
(***************************************************************************)
EXTENDS Integers, Sequences, FiniteSets, TLC

\* ------------------------------------------------------------------ bounds
MaxRequests == 3      \* HTTP requests received in one run
MaxTransports == 2    \* StreamableHTTPServerTransport objects created
MaxNameLen == 2       \* characters of a logical graph name
MaxTenantLen == 2     \* characters of a tenant identifier
MaxAuthRequests == 3  \* requests the authentication middleware receives
MaxFragments == 4     \* fragments an error message is put together from
MaxRedisCalls == 3    \* calls made to the key-value service
MaxFailures == 6      \* failed connection attempts counted, and timers armed
MaxServers == 2       \* session servers registered with the logger
MaxWrites == 2        \* console calls made
MaxFaults == 2        \* uncaught exceptions and unhandled rejections
MaxInFlight == 1      \* graph service calls, and timer-started inits, in flight
MaxStreams == 1       \* streaming connections open on the HTTP listener

\* ------------------------------------------------------- values and inputs
Undefined == -1       \* JavaScript undefined (absent header, unset field)
BogusSid == 0         \* a session id the server never issued
NoTransport == 0

Methods == {"POST", "GET", "DELETE", "PUT"}

\* values of the Authorization header a client may send
AuthHeaders == {"none", "Bearer secret", "Bearer wrong"}

\* configured values of config.mcp.apiKey ('' when MCP_API_KEY is unset)
ApiKeys == {"", "secret"}

\* request bodies: the text either parses to a JSON value or does not, and
\* the stream itself may fail (req.on('error', reject))
Bodies ==
  { [text |-> "bad",    shape |-> "none",   methods |-> <<>>],
    [text |-> "ok",     shape |-> "object", methods |-> <<"initialize">>],
    [text |-> "ok",     shape |-> "object", methods |-> <<"tools/call">>],
    [text |-> "ok",     shape |-> "array",  methods |-> <<"ping", "initialize">>],
    [text |-> "ok",     shape |-> "null",   methods |-> <<>>],
    [text |-> "error",  shape |-> "none",   methods |-> <<>>] }

\* what a request's record keeps of its body once the handler has read it
BodyKind(body) ==
  IF body.text # "ok" THEN body.text
  ELSE IF \E k \in 1..Len(body.methods) : body.methods[k] = "initialize"
    THEN "initialize"
    ELSE "other"

VARIABLES
  apiKey,       \* config.mcp.apiKey
  sessions,     \* Map<string, StreamableHTTPServerTransport>: sid -> transport
  transports,   \* the transports created so far: [sessionId, closed]
  uuids,        \* number of identifiers randomUUID() has produced
  arrived,      \* number of requests received so far
  handlers,     \* the request handlers in flight, each at one of its awaits
  done,         \* the request whose handler returned last
  deleted,      \* session ids whose DELETE request has been handled
  removed,      \* session ids that have been taken out of the session table
  rejections,   \* rejected handler promises not yet seen by the process handlers
  proc,         \* "running" or "exited"
  log,          \* what logger.errorSync has recorded
  mtConfig,     \* config.multiTenancy: [enabled, tenantGraphPrefix]
  calls,        \* resolveGraphName calls made: [graphName, tenantId, result]
  observed,     \* the last extractTenantFromGraphName / filterGraphsForTenant call
  authConfig,   \* config read by authenticateMCP: [enabled, authMode, nodeEnv, apiKey]
  authArrived,  \* number of requests the middleware has received
  authPending,  \* validateJWT calls waiting for the signing key
  authDone,     \* the request authenticateMCP finished last
  failure,      \* the value handed to toMcpErrorResult: [kind, message]
  mcpResult,    \* what toMcpErrorResult returned for it
  sanitized,    \* successive outputs of sanitizeErrorMessage on the message
  exitCode,     \* the code process.exit was called with, Undefined while running
  crashLog,     \* what crashIfUntrustedError has logged
  crashChecked, \* crashIfUntrustedError has been called
  toolConfig,   \* config read by the tool handlers: [defaultReadOnly, strictReadOnly, nodeEnv]
  toolCall,     \* the tool call being handled: [tool, args, pc, error, result]
  backendCalls, \* calls made to falkorDBService / redisService for the tool call
  toolLog,      \* what the tool handler has logged
  redis,        \* RedisService: [client, retryCount, initializingPromise, pc, attempt]
  redisCalls,   \* the calls made to RedisService, in flight and returned
  falkor,       \* FalkorDBService: its fields, the init() calls in flight, the timers
  falkorCalls,  \* calls to FalkorDBService: [pending, last]
  logger,       \* LoggerService: [mcpServers, logFile, nodeEnv]
  logCall,      \* the logging call being made, NoLogCall before the first
  life,         \* the process: its stage, the resources it owns, how it ended
  streams       \* what console calls have written to stdout and stderr

httpVars == <<apiKey, sessions, transports, uuids, arrived, handlers, done,
             deleted, removed, rejections, proc, log>>
tenantVars == <<mtConfig, calls, observed>>

authVars == <<authConfig, authArrived, authPending, authDone>>

\* the variables of the other components, seen from each component
errVars == <<failure, mcpResult, sanitized>>
crashVars == <<exitCode, crashLog, crashChecked>>
toolVars == <<toolConfig, toolCall, backendCalls, toolLog>>
redisVars == <<redis, redisCalls>>
falkorVars == <<falkor, falkorCalls>>
logVars == <<logger, logCall>>
lifeVars == <<life, streams>>
svcVars == <<redisVars, falkorVars, logVars, lifeVars>>

\* the variables of the other components, seen from each component
offProcess == <<tenantVars, authVars, errVars, toolVars, svcVars>>
offHttp == <<offProcess, crashVars>>
offSession == <<tenantVars, authVars, errVars, toolVars, crashVars,
                redisVars, falkorVars, logCall, lifeVars>>
offTenant == <<httpVars, authVars, errVars, crashVars, toolVars, svcVars>>
offAuth == <<httpVars, tenantVars, errVars, crashVars, toolVars, svcVars>>
offErr == <<httpVars, tenantVars, authVars, crashVars, toolVars, svcVars>>
offCrash == <<tenantVars, authVars, toolVars, svcVars>>
offTool == <<httpVars, tenantVars, authVars, errVars, crashVars, svcVars>>

coreVars == <<httpVars, tenantVars, authVars, errVars, crashVars, toolVars>>
offRedis == <<coreVars, falkorVars, logVars, lifeVars>>
offFalkor == <<coreVars, redisVars, logVars, lifeVars>>
offLog == <<coreVars, redisVars, falkorVars, lifeVars>>
offLife == <<coreVars, redisVars, falkorVars, logVars>>

vars == <<coreVars, svcVars>>

\* ------------------------------------------------------------ map helpers
MapSet(m, k, v) == [x \in DOMAIN m \cup {k} |-> IF x = k THEN v ELSE m[x]]
MapDelete(m, k) == [x \in DOMAIN m \ {k} |-> m[x]]
MapHas(m, k) == k \in DOMAIN m
EmptyMap == [x \in {} |-> NoTransport]

\* ------------------------------------------------------ pure request logic
\* mutant of Authorized: any Authorization header is taken for the key
AuthorizedAnyHeader(key, authHeader) ==
  IF key # "" THEN authHeader # "none" ELSE TRUE

\* index.ts 171-178: the request passes when no key is configured or the
\* header equals `Bearer ${apiKey}` exactly
Authorized(key, authHeader) ==
  IF key # ""
    THEN ~(authHeader = "none" \/ authHeader # "Bearer " \o key)
    ELSE TRUE

\* index.ts 171-172: the Authorization header is read only when a key is
\* configured; "unread" stands for a header the handler never looks at
HeadersRead(key) == IF key # "" THEN AuthHeaders ELSE {"unread"}

\* mutant of IsInitializeRequest: any object or batch counts as initialization
IsInitializeRequestAnyMessage(body) == body.shape \in {"object", "array"}

\* index.ts 274-282
IsInitializeRequest(body) ==
  IF body.shape = "object" /\ Len(body.methods) > 0
    THEN body.methods[1] = "initialize"
    ELSE IF body.shape = "array"
      THEN \E i \in 1..Len(body.methods) : body.methods[i] = "initialize"
      ELSE FALSE

\* JavaScript truthiness of the mcp-session-id header value
Truthy(sid) == sid # Undefined

\* index.ts 187 / 217 / 226: sessionId && sessions.has(sessionId)
KnownSession(sid, table) == Truthy(sid) /\ MapHas(table, sid)

\* mutant of IsTrustedError: every AppError is trusted
IsTrustedErrorAnyAppError(err) == IF err.isAppError THEN TRUE ELSE FALSE

\* ErrorHandler.ts 26-31
IsTrustedError(err) == IF err.isAppError THEN err.isOperational ELSE FALSE

SyntaxError == [name |-> "SyntaxError", isAppError |-> FALSE, isOperational |-> FALSE]
StreamError == [name |-> "Error", isAppError |-> FALSE, isOperational |-> FALSE]
EngineError == [name |-> "EngineError", isAppError |-> FALSE, isOperational |-> FALSE]

\* ------------------------------------------------- tenant name resolution
\* Strings are sequences of characters; "_" is the separator of part_002:27
Chars == {"a", "_"}
StringsUpTo(n) == UNION { [1..k -> Chars] : k \in 0..n }
GraphNames == StringsUpTo(MaxNameLen) \ {<<>>}

\* tenantId?: string -- absent (undefined) or a string, possibly empty
NoTenant == [present |-> FALSE, id |-> <<>>]
TenantIds == {NoTenant} \cup { [present |-> TRUE, id |-> s] : s \in StringsUpTo(MaxTenantLen) }

MtConfigs == [enabled : BOOLEAN, tenantGraphPrefix : BOOLEAN]

\* JavaScript !tenantId: true of undefined and of the empty string
Falsy(tenantId) == ~tenantId.present \/ tenantId.id = <<>>

\* mutant of ResolveGraphName: the tenantGraphPrefix flag is not consulted
ResolveGraphNameIgnoresPrefixFlag(cfg, graphName, tenantId) ==
  IF ~cfg.enabled THEN graphName
  ELSE IF Falsy(tenantId) THEN graphName
  ELSE tenantId.id \o <<"_">> \o graphName

\* mutant of ResolveGraphName: only an undefined tenant id counts as absent
ResolveGraphNameEmptyIsPresent(cfg, graphName, tenantId) ==
  IF ~cfg.enabled THEN graphName
  ELSE IF ~cfg.tenantGraphPrefix THEN graphName
  ELSE IF ~tenantId.present THEN graphName
  ELSE tenantId.id \o <<"_">> \o graphName

\* part_002 10-28
ResolveGraphName(cfg, graphName, tenantId) ==
  IF ~cfg.enabled THEN graphName
  ELSE IF ~cfg.tenantGraphPrefix THEN graphName
  ELSE IF Falsy(tenantId) THEN graphName
  ELSE tenantId.id \o <<"_">> \o graphName

\* String.prototype.split('_'): the pieces between the separators, in order
RECURSIVE Split(_)
Split(s) ==
  IF \A i \in 1..Len(s) : s[i] # "_" THEN <<s>>
  ELSE LET at == CHOOSE i \in 1..Len(s) :
                   s[i] = "_" /\ \A j \in 1..(i - 1) : s[j] # "_"
       IN <<SubSeq(s, 1, at - 1)>> \o Split(SubSeq(s, at + 1, Len(s)))

\* Array.prototype.join('_')
RECURSIVE Join(_)
Join(parts) ==
  IF Len(parts) = 0 THEN <<>>
  ELSE IF Len(parts) = 1 THEN parts[1]
  ELSE parts[1] \o <<"_">> \o Join(Tail(parts))

\* the null that extractTenantFromGraphName returns
Null == [isNull |-> TRUE, tenantId |-> <<>>, originalGraphName |-> <<>>]

\* part_002 35-49
ExtractTenantFromGraphName(cfg, resolvedGraphName) ==
  IF ~cfg.enabled \/ ~cfg.tenantGraphPrefix THEN Null
  ELSE LET parts == Split(resolvedGraphName)
       IN IF Len(parts) < 2 THEN Null
          ELSE [isNull |-> FALSE,
                tenantId |-> parts[1],
                originalGraphName |-> Join(Tail(parts))]

\* String.prototype.includes('_')
IncludesSeparator(graphName) == \E i \in 1..Len(graphName) : graphName[i] = "_"

\* String.prototype.startsWith
StartsWith(graphName, prefix) ==
  /\ Len(graphName) >= Len(prefix)
  /\ SubSeq(graphName, 1, Len(prefix)) = prefix

\* String.prototype.substring(start)
Substring(graphName, start) == SubSeq(graphName, start + 1, Len(graphName))

\* Array.prototype.map(graphName => graphName.substring(start))
StripEach(graphs, start) == [k \in 1..Len(graphs) |-> Substring(graphs[k], start)]

\* mutant of FilterGraphsForTenant: the tenant's names keep their prefix
FilterGraphsKeepPrefix(cfg, allGraphs, tenantId) ==
  IF ~cfg.enabled THEN allGraphs
  ELSE IF ~cfg.tenantGraphPrefix THEN allGraphs
  ELSE IF Falsy(tenantId)
    THEN LET Shared(graphName) == ~IncludesSeparator(graphName)
         IN SelectSeq(allGraphs, Shared)
    ELSE LET tenantPrefix == tenantId.id \o <<"_">>
             Owned(graphName) == StartsWith(graphName, tenantPrefix)
         IN SelectSeq(allGraphs, Owned)

\* part_002 57-78
FilterGraphsForTenant(cfg, allGraphs, tenantId) ==
  IF ~cfg.enabled THEN allGraphs
  ELSE IF ~cfg.tenantGraphPrefix THEN allGraphs
  ELSE IF Falsy(tenantId)
    THEN LET Shared(graphName) == ~IncludesSeparator(graphName)
         IN SelectSeq(allGraphs, Shared)
    ELSE LET tenantPrefix == tenantId.id \o <<"_">>
             Owned(graphName) == StartsWith(graphName, tenantPrefix)
         IN StripEach(SelectSeq(allGraphs, Owned), Len(tenantPrefix))

\* ------------------------------------------------------------ request state
\* One request and the position of its handler.  A field holds "unread" (or
\* Undefined) until the handler reads the corresponding part of the request.
NewRequest(auth) ==
  [method |-> "unread", auth |-> auth, sid |-> Undefined, body |-> "unread",
   pc |-> "start", status |-> 0, routedTo |-> NoTransport,
   transport |-> NoTransport, lookedUp |-> FALSE, hit |-> FALSE,
   mutated |-> FALSE, afterDelete |-> FALSE]

NoRequest == [NewRequest("unread") EXCEPT !.pc = "none"]

\* session ids a client can put in the mcp-session-id header: none, one the
\* server never issued, or one that a response has returned
ClientSids == {Undefined, BogusSid} \cup (1..uuids)

RemoveAt(seq, i) == SubSeq(seq, 1, i - 1) \o SubSeq(seq, i + 1, Len(seq))

\* index.ts 212-213, 221-222, 231-232, 235-236: the handler's own error answer
Answer(r, code) == [r EXCEPT !.status = code, !.pc = "done"]

\* index.ts 169-182 and 215-237: the synchronous part of the handler, from the
\* arrival of the request to its first await (or to its answer)
FirstTurn(key, table, method, auth, sid, late) ==
  LET r0 == NewRequest(auth)
      r1 == [r0 EXCEPT !.method = method, !.sid = sid, !.afterDelete = late]
      known == KnownSession(sid, table)
      looked == [r1 EXCEPT !.lookedUp = Truthy(sid), !.hit = sid \in DOMAIN table]
  IN IF ~Authorized(key, auth) THEN Answer(r0, 401)
     ELSE IF method = "POST" THEN [r1 EXCEPT !.pc = "readBody"]
     ELSE IF method = "GET" THEN
       IF known
         THEN [looked EXCEPT !.pc = "stream", !.routedTo = table[sid]]
         ELSE Answer(looked, 400)
     ELSE IF method = "DELETE" THEN
       IF known
         THEN [looked EXCEPT !.pc = "delEngine", !.routedTo = table[sid]]
         ELSE Answer(looked, 400)
     ELSE Answer(r1, 405)

\* index.ts 203, 246-263: createSessionServer() returns a new McpServer, which
\* it has registered with the logger (258); the instances are told apart by
\* the order of their creation
CreateSessionServer(created) == Len(created) + 1

\* The event loop hands out the next I/O event only while the process runs
\* and no rejected promise waits for the process-level handlers: Node emits
\* 'unhandledRejection' when the current tick's microtasks have drained,
\* before it polls for further I/O
Serving == proc = "running" /\ rejections = <<>>

\* the handler at position i returns: its promise resolves
Return(i, r) ==
  /\ handlers' = RemoveAt(handlers, i)
  /\ done' = [r EXCEPT !.pc = "done"]
  /\ UNCHANGED rejections

\* the handler at position i throws: its promise rejects with err
Throw(i, r, err) ==
  /\ handlers' = RemoveAt(handlers, i)
  /\ rejections' = Append(rejections, [req |-> [r EXCEPT !.pc = "threw"], err |-> err])
  /\ UNCHANGED done

\* the handler at position i suspends at its next await
Suspend(i, r) ==
  /\ handlers' = [handlers EXCEPT ![i] = r]
  /\ UNCHANGED <<done, rejections>>

\* ------------------------------------------------------------------ actions
\* index.ts 169-182, 215-237: a request arrives and its handler runs to its
\* first await
Receive ==
  /\ Serving
  /\ arrived < MaxRequests
  /\ arrived' = arrived + 1
  /\ \E method \in Methods, auth \in HeadersRead(apiKey), sid \in ClientSids :
       LET r == FirstTurn(apiKey, sessions, method, auth, sid, sid \in deleted)
       IN IF r.pc = "done"
            THEN done' = r /\ UNCHANGED handlers
            ELSE handlers' = Append(handlers, r) /\ UNCHANGED done
  /\ UNCHANGED <<apiKey, removed, sessions, transports, uuids, deleted, rejections, proc, log>>
  /\ UNCHANGED offHttp

\* index.ts 184-214: readRequestBody resolves (or rejects), the body is parsed
\* and the POST is routed, up to the next await
ReadBody(i) ==
  /\ Serving
  /\ handlers[i].pc = "readBody"
  /\ \E body \in Bodies :
       LET r == [handlers[i] EXCEPT !.body = BodyKind(body)]
           known == KnownSession(r.sid, sessions)
           looked == [r EXCEPT !.lookedUp = Truthy(r.sid),
                               !.hit = r.sid \in DOMAIN sessions]
           init == ~Truthy(r.sid) /\ IsInitializeRequest(body)
       IN
       IF body.text = "error" THEN
         Throw(i, r, StreamError) /\ UNCHANGED <<transports, logger>>
       ELSE IF body.text = "bad" THEN
         Throw(i, r, SyntaxError) /\ UNCHANGED <<transports, logger>>
       ELSE IF known THEN
         /\ Suspend(i, [looked EXCEPT !.pc = "engine", !.routedTo = sessions[r.sid]])
         /\ UNCHANGED <<transports, logger>>
       ELSE IF init THEN
         /\ Len(transports) < MaxTransports
         /\ transports' = Append(transports,
              [sessionId |-> Undefined, closed |-> FALSE,
               engine |-> CreateSessionServer(transports)])
         /\ logger' = [logger EXCEPT
              !.mcpServers = @ \cup {CreateSessionServer(transports)}]
         /\ Suspend(i, [looked EXCEPT !.pc = "connect",
                                      !.transport = Len(transports) + 1])
       ELSE
         Return(i, Answer(looked, 400)) /\ UNCHANGED <<transports, logger>>
  /\ UNCHANGED <<apiKey, removed, sessions, uuids, arrived, deleted, proc, log>>
  /\ UNCHANGED offSession

\* index.ts 203-204: createSessionServer() and sessionServer.connect(transport)
\* have completed; the handler goes on to hand the request to the transport
ConnectDone(i) ==
  /\ Serving
  /\ handlers[i].pc = "connect"
  /\ Suspend(i, [handlers[i] EXCEPT !.pc = "initEngine"])
  /\ UNCHANGED <<apiKey, removed, sessions, transports, uuids, arrived, deleted, proc, log>>
  /\ UNCHANGED offHttp

\* index.ts 193-195, 205: transport.handleRequest processes the initialization
\* message: the engine assigns an identifier from sessionIdGenerator and
\* answers 200 with the identifier in the response header, or answers with its
\* own error and assigns none, or fails
EngineInit(i) ==
  /\ Serving
  /\ handlers[i].pc = "initEngine"
  /\ LET t == handlers[i].transport
         r == [handlers[i] EXCEPT !.routedTo = t]
     IN
     \/ /\ transports' = [transports EXCEPT ![t].sessionId = uuids + 1]
        /\ uuids' = uuids + 1
        /\ Suspend(i, [r EXCEPT !.pc = "initResume", !.status = 200])
     \/ /\ Suspend(i, [r EXCEPT !.pc = "initResume", !.status = 406])
        /\ UNCHANGED <<transports, uuids>>
     \/ /\ Throw(i, r, EngineError)
        /\ UNCHANGED <<transports, uuids>>
  /\ UNCHANGED <<apiKey, removed, sessions, arrived, deleted, proc, log>>
  /\ UNCHANGED offHttp

\* mutant of RegisterSession: the transport is stored under the first identifier
RegisterSessionFirstKey(r, table) ==
  IF Truthy(transports[r.transport].sessionId)
    THEN MapSet(table, 1, r.transport)
    ELSE table

\* mutant of RegisterSession: the transport is stored without the test of
\* transport.sessionId
RegisterSessionUnconditionally(r, table) ==
  MapSet(table, transports[r.transport].sessionId, r.transport)

\* index.ts 207-210: the handler resumes after the await and stores the session
RegisterSession(r, table) ==
  IF Truthy(transports[r.transport].sessionId)
    THEN MapSet(table, transports[r.transport].sessionId, r.transport)
    ELSE table

InitResume(i) ==
  /\ Serving
  /\ handlers[i].pc = "initResume"
  /\ sessions' = RegisterSession(handlers[i], sessions)
  /\ UNCHANGED removed
  /\ Return(i, [handlers[i] EXCEPT
       !.mutated = RegisterSession(handlers[i], sessions) # sessions])
  /\ UNCHANGED <<apiKey, transports, uuids, arrived, deleted, proc, log>>
  /\ UNCHANGED offHttp

\* index.ts 190 and 219: the engine of an existing session handles a POST or
\* holds a GET stream; the awaited call returns or fails
EngineHandle(i) ==
  /\ Serving
  /\ handlers[i].pc \in {"engine", "stream"}
  /\ \/ Return(i, [handlers[i] EXCEPT !.status = 200])
     \/ Throw(i, handlers[i], EngineError)
  /\ UNCHANGED <<apiKey, removed, sessions, transports, uuids, arrived, deleted, proc, log>>
  /\ UNCHANGED offHttp

\* index.ts 228: what transport.handleRequest answers to a DELETE before it
\* returns: 200 after the protocol-level close, or the engine's own rejection
\* of the request (400)
DeleteAnswers == {200, 400}

\* index.ts 228: the engine handles the DELETE (protocol-level close)
EngineDelete(i) ==
  /\ Serving
  /\ handlers[i].pc = "delEngine"
  /\ \/ \E code \in DeleteAnswers :
          Suspend(i, [handlers[i] EXCEPT !.pc = "delResume", !.status = code])
     \/ Throw(i, handlers[i], EngineError)
  /\ UNCHANGED <<apiKey, removed, sessions, transports, uuids, arrived, deleted, proc, log>>
  /\ UNCHANGED offHttp

\* mutant of RemoveSession: the entry is left in the table
RemoveSessionKeeps(r, table) == table

\* index.ts 229: the handler resumes after the await and drops the entry
RemoveSession(r, table) == MapDelete(table, r.sid)

DeleteResume(i) ==
  /\ Serving
  /\ handlers[i].pc = "delResume"
  /\ sessions' = RemoveSession(handlers[i], sessions)
  /\ removed' = removed \cup (DOMAIN sessions \ DOMAIN RemoveSession(handlers[i], sessions))
  /\ deleted' = deleted \cup {handlers[i].sid}
  /\ Return(i, [handlers[i] EXCEPT
       !.mutated = RemoveSession(handlers[i], sessions) # sessions])
  /\ UNCHANGED <<apiKey, transports, uuids, arrived, proc, log>>
  /\ UNCHANGED offHttp

\* index.ts 197-200: the transport's onclose callback, fired by the engine
\* whenever the transport closes
OnClose(t, table) ==
  IF Truthy(transports[t].sessionId)
    THEN MapDelete(table, transports[t].sessionId)
    ELSE table

TransportClose(t) ==
  /\ Serving
  /\ ~transports[t].closed \/ OnClose(t, sessions) # sessions
  /\ transports' = [transports EXCEPT ![t].closed = TRUE]
  /\ sessions' = OnClose(t, sessions)
  /\ removed' = removed \cup (DOMAIN sessions \ DOMAIN OnClose(t, sessions))
  /\ UNCHANGED <<apiKey, uuids, arrived, handlers, done, deleted, rejections, proc, log>>
  /\ UNCHANGED offHttp

\* ErrorHandler.ts 54-59: process.exit(1), seen as the state of the process
CrashIfUntrustedError(err, p) == IF ~IsTrustedError(err) THEN "exited" ELSE p

\* ErrorHandler.ts 57: the exit code of process.exit(1)
ExitCode(err, code) == IF ~IsTrustedError(err) THEN 1 ELSE code

\* ErrorHandler.ts 56: logger.errorSync('Crashing process due to untrusted error', error)
CrashLog(err, entries) ==
  IF ~IsTrustedError(err)
    THEN Append(entries, [message |-> "Crashing process due to untrusted error",
                          error |-> err])
    ELSE entries

\* index.ts 51-66: a rejected handler promise reaches 'unhandledRejection',
\* which rethrows into 'uncaughtException': the error is logged and the
\* process exits unless the error is a trusted (operational) one
ProcessHandlers ==
  /\ proc = "running"
  /\ rejections # <<>>
  /\ log' = Append(log, Head(rejections))
  /\ proc' = CrashIfUntrustedError(Head(rejections).err, proc)
  /\ exitCode' = ExitCode(Head(rejections).err, exitCode)
  /\ crashLog' = CrashLog(Head(rejections).err, crashLog)
  /\ crashChecked' = TRUE
  /\ rejections' = Tail(rejections)
  /\ UNCHANGED <<apiKey, removed, sessions, transports, uuids, arrived, handlers, done, deleted>>
  /\ UNCHANGED offProcess

\* ------------------------------------------------ authentication middleware
\* config.multiTenancy.authMode, config.server.nodeEnv
AuthModes == {"api-key", "bearer"}
NodeEnvs == {"development", "production"}
AuthConfigs == [enabled : BOOLEAN, authMode : AuthModes, nodeEnv : NodeEnvs,
                apiKey : ApiKeys]

\* payload.sub: absent, the empty string, or a tenant identifier
Subs == {NoTenant, [present |-> TRUE, id |-> <<>>], [present |-> TRUE, id |-> <<"a">>]}

\* The tokens a client may present, by what the JWT library and the JWKS
\* endpoint make of them: jwt.decode returns null or a header with or without
\* a kid, getSigningKey resolves or rejects, jwt.verify returns the payload or
\* throws (bad signature, expired, wrong issuer, audience or algorithm)
Tokens ==
  { [decodes |-> FALSE, kid |-> FALSE, key |-> FALSE, verifies |-> FALSE, sub |-> NoTenant],
    [decodes |-> TRUE,  kid |-> FALSE, key |-> FALSE, verifies |-> FALSE, sub |-> NoTenant],
    [decodes |-> TRUE,  kid |-> TRUE,  key |-> FALSE, verifies |-> FALSE, sub |-> NoTenant],
    [decodes |-> TRUE,  kid |-> TRUE,  key |-> TRUE,  verifies |-> FALSE,
     sub |-> [present |-> TRUE, id |-> <<"a">>]] }
  \cup { [decodes |-> TRUE, kid |-> TRUE, key |-> TRUE, verifies |-> TRUE, sub |-> sub] :
         sub \in Subs }

NoToken == [decodes |-> FALSE, kid |-> FALSE, key |-> FALSE, verifies |-> FALSE, sub |-> NoTenant]

\* req.headers.authorization: absent, another scheme, or 'Bearer ' + token
Authorizations ==
  { [scheme |-> "none", token |-> NoToken], [scheme |-> "Basic", token |-> NoToken] }
    \cup { [scheme |-> "Bearer", token |-> token] : token \in Tokens }

\* req.headers['x-api-key'] || req.query.apiKey
XApiKeys == {"", "secret", "wrong"}

\* a request as authenticateMCP sees it; status 0 and next FALSE until answered
AuthRequest(authorization, xApiKey) ==
  [authorization |-> authorization, xApiKey |-> xApiKey, pc |-> "start",
   status |-> 0, next |-> FALSE, tenantId |-> NoTenant]

NoAuthRequest == [AuthRequest([scheme |-> "none", token |-> NoToken], "") EXCEPT !.pc = "none"]

\* res.status(code).json(...)
Reject(r, code) == [r EXCEPT !.pc = "done", !.status = code]

\* next()
PassOn(r) == [r EXCEPT !.pc = "done", !.next = TRUE]

BearerMode(cfg) == cfg.enabled /\ cfg.authMode = "bearer"

\* bearer.middleware.ts 40-55: validateJWT up to `await this.getSigningKey`
ValidateJWTStart(r) ==
  LET authHeader == r.authorization
  IN IF authHeader.scheme = "none" \/ authHeader.scheme # "Bearer" THEN Reject(r, 401)
     ELSE IF ~authHeader.token.decodes \/ ~authHeader.token.kid THEN Reject(r, 401)
     ELSE [r EXCEPT !.pc = "getSigningKey"]

\* bearer.middleware.ts 55-81: validateJWT from the signing key on; a rejected
\* getSigningKey and a throwing jwt.verify end in the catch block
ValidateJWTResume(r) ==
  LET token == r.authorization.token
  IN IF ~token.key THEN Reject(r, 401)
     ELSE IF ~token.verifies THEN Reject(r, 401)
     ELSE IF ~Falsy(token.sub)
       THEN PassOn([r EXCEPT !.tenantId = token.sub])
       ELSE PassOn(r)

\* bearer.middleware.ts 102-119: the API-key path of authenticateMCP
ApiKeyAuth(cfg, r) ==
  IF cfg.nodeEnv = "development" /\ cfg.apiKey = "" THEN PassOn(r)
  ELSE IF r.xApiKey = "" THEN Reject(r, 401)
  ELSE IF r.xApiKey # cfg.apiKey THEN Reject(r, 403)
  ELSE PassOn(r)

\* bearer.middleware.ts 96-120: authenticateMCP up to its first await
AuthenticateMCP(cfg, r) ==
  IF BearerMode(cfg) THEN ValidateJWTStart(r) ELSE ApiKeyAuth(cfg, r)

\* a request arrives; the header the chosen path does not read stays unread
AuthReceive ==
  /\ authArrived < MaxAuthRequests
  /\ authArrived' = authArrived + 1
  /\ \E authorization \in (IF BearerMode(authConfig) THEN Authorizations
                                                    ELSE {NoAuthRequest.authorization}),
        xApiKey \in (IF BearerMode(authConfig) THEN {""} ELSE XApiKeys) :
       LET r == AuthenticateMCP(authConfig, AuthRequest(authorization, xApiKey))
       IN IF r.pc = "done"
            THEN authDone' = r /\ UNCHANGED authPending
            ELSE authPending' = Append(authPending, r) /\ UNCHANGED authDone
  /\ UNCHANGED authConfig
  /\ UNCHANGED offAuth

\* the JWKS client settles the signing-key promise of one waiting request
SigningKeySettled(i) ==
  /\ authDone' = ValidateJWTResume(authPending[i])
  /\ authPending' = RemoveAt(authPending, i)
  /\ UNCHANGED <<authConfig, authArrived>>
  /\ UNCHANGED offAuth

\* ---------------------------------------------------------- error sanitizer
\* A message is a sequence of atoms: whole words, single punctuation
\* characters, and the placeholders the sanitizer writes.  "1" is a digit.
Spaces == {" ", "\n"}
Punctuation == {":", "/", "\\", "@", "=", "."}
Placeholders == {"<credentials>", "<host>", "<redacted>", "<port>", "<path>"}
Digits == {"1"}
DriveLetters == {"C"}
Words ==
  {"x", "at", "redis", "mongodb", "postgresql", "falkordb", "password", "token",
   "apikey", "localhost", "An", "Error", "error", "occurred", "unexpected"}
    \cup Digits \cup DriveLetters
Atoms == Spaces \cup Punctuation \cup Placeholders \cup Words

NonSpace == Atoms \ Spaces              \* \S and [^\s]
NonAtNonSpace == NonSpace \ {"@"}       \* [^@\s]
PathChars == Words \cup {".", "/"}      \* [\w./-]
WinPathChars == Words \cup {"\\"}       \* [\w\-\\]

\* the atom at position i, or "" outside the message
AtomAt(s, i) == IF i >= 1 /\ i <= Len(s) THEN s[i] ELSE ""

\* the length of the longest run of atoms of a class that starts at i: a
\* greedy quantifier over a character class
RECURSIVE RunLen(_, _, _)
RunLen(s, i, class) ==
  IF i > Len(s) THEN 0
  ELSE IF s[i] \notin class THEN 0
  ELSE 1 + RunLen(s, i + 1, class)

\* \b before the word at i, and after the word that ends at j
WordStartsAt(s, i) == AtomAt(s, i - 1) \notin Words
WordEndsAt(s, j) == AtomAt(s, j + 1) \notin Words

\* String.prototype.replace with a global regex: the matches are found from
\* left to right in the original string and do not overlap; matchLen[i] is
\* the length of the match that starts at i, 0 when there is none
ReplaceAll(s, matchLen, replacement) ==
  LET out[i \in 1..(Len(s) + 1)] ==
        IF i > Len(s) THEN <<>>
        ELSE LET n == matchLen[i]
             IN IF n > 0 THEN replacement \o out[i + n]
                ELSE <<s[i]>> \o out[i + 1]
  IN out[1]

\* String.prototype.trim
Trim(s) ==
  LET kept == { i \in 1..Len(s) : s[i] \notin Spaces }
  IN IF kept = {} THEN <<>>
     ELSE SubSeq(s, CHOOSE i \in kept : \A k \in kept : i <= k,
                    CHOOSE i \in kept : \A k \in kept : i >= k)

\* message.split('\n')
RECURSIVE SplitLines(_)
SplitLines(s) ==
  IF \A i \in 1..Len(s) : s[i] # "\n" THEN <<s>>
  ELSE LET at == CHOOSE i \in 1..Len(s) :
                   s[i] = "\n" /\ \A j \in 1..(i - 1) : s[j] # "\n"
       IN <<SubSeq(s, 1, at - 1)>> \o SplitLines(SubSeq(s, at + 1, Len(s)))

\* sanitizedLines.join('\n')
RECURSIVE JoinLines(_)
JoinLines(lines) ==
  IF Len(lines) = 0 THEN <<>>
  ELSE IF Len(lines) = 1 THEN lines[1]
  ELSE lines[1] \o <<"\n">> \o JoinLines(Tail(lines))

\* ErrorHandler.ts 102: line.trim().startsWith('at ')
IsStackLine(line) ==
  LET t == Trim(line) IN Len(t) >= 2 /\ t[1] = "at" /\ t[2] = " "

\* /<scheme>:\/\/[^@\s]+@[^\s]+/gi at position i
CredentialUrlLen(scheme, s, i) ==
  IF /\ AtomAt(s, i) = scheme /\ AtomAt(s, i + 1) = ":"
     /\ AtomAt(s, i + 2) = "/" /\ AtomAt(s, i + 3) = "/"
    THEN LET user == RunLen(s, i + 4, NonAtNonSpace)
             host == RunLen(s, i + 5 + user, NonSpace)
         IN IF user >= 1 /\ AtomAt(s, i + 4 + user) = "@" /\ host >= 1
              THEN 5 + user + host
              ELSE 0
    ELSE 0

\* /<scheme>:\/\/(?![^@\s]+@)[^\s]+/gi at position i
PlainUrlLen(scheme, s, i) ==
  IF /\ AtomAt(s, i) = scheme /\ AtomAt(s, i + 1) = ":"
     /\ AtomAt(s, i + 2) = "/" /\ AtomAt(s, i + 3) = "/"
    THEN LET user == RunLen(s, i + 4, NonAtNonSpace)
             credentialed == user >= 1 /\ AtomAt(s, i + 4 + user) = "@"
             rest == RunLen(s, i + 4, NonSpace)
         IN IF ~credentialed /\ rest >= 1 THEN 4 + rest ELSE 0
    ELSE 0

\* /password[=:]\s*(\S+)/gi, /\btoken[=:]\s*(\S+)/gi and
\* /api[_-]?key[=:]\s*(\S+)/gi at position i
LabelLen(label, atWordStart, s, i) ==
  IF /\ AtomAt(s, i) = label
     /\ atWordStart => WordStartsAt(s, i)
     /\ AtomAt(s, i + 1) \in {"=", ":"}
    THEN LET gap == RunLen(s, i + 2, Spaces)
             value == RunLen(s, i + 2 + gap, NonSpace)
         IN IF value >= 1 THEN 2 + gap + value ELSE 0
    ELSE 0

\* /\b\d{1,3}\.\d{1,3}\.\d{1,3}\.\d{1,3}:\d+\b/g at position i
HostPortLen(s, i) ==
  LET g1 == RunLen(s, i, Digits)
      p2 == i + g1 + 1
      g2 == RunLen(s, p2, Digits)
      p3 == p2 + g2 + 1
      g3 == RunLen(s, p3, Digits)
      p4 == p3 + g3 + 1
      g4 == RunLen(s, p4, Digits)
      p5 == p4 + g4 + 1
      port == RunLen(s, p5, Digits)
  IN IF /\ WordStartsAt(s, i)
        /\ g1 \in 1..3 /\ AtomAt(s, p2 - 1) = "."
        /\ g2 \in 1..3 /\ AtomAt(s, p3 - 1) = "."
        /\ g3 \in 1..3 /\ AtomAt(s, p4 - 1) = "."
        /\ g4 \in 1..3 /\ AtomAt(s, p5 - 1) = ":"
        /\ port >= 1 /\ WordEndsAt(s, p5 + port - 1)
       THEN p5 + port - i
       ELSE 0

\* /\blocalhost:\d+\b/g at position i
LocalhostLen(s, i) ==
  LET port == RunLen(s, i + 2, Digits)
  IN IF /\ AtomAt(s, i) = "localhost" /\ WordStartsAt(s, i)
        /\ AtomAt(s, i + 1) = ":"
        /\ port >= 1 /\ WordEndsAt(s, i + 1 + port)
       THEN 2 + port
       ELSE 0

\* /(?<!:)\/[\w./-]+/g at position i
PathLen(s, i) ==
  LET run == RunLen(s, i + 1, PathChars)
  IN IF AtomAt(s, i) = "/" /\ AtomAt(s, i - 1) # ":" /\ run >= 1
       THEN 1 + run
       ELSE 0

\* /\b[A-Z]:\\[\w\-\\]+/g at position i
WinPathLen(s, i) ==
  LET run == RunLen(s, i + 3, WinPathChars)
  IN IF /\ AtomAt(s, i) \in DriveLetters /\ WordStartsAt(s, i)
        /\ AtomAt(s, i + 1) = ":" /\ AtomAt(s, i + 2) = "\\" /\ run >= 1
       THEN 3 + run
       ELSE 0

\* ErrorHandler.ts 106-109, one line of them
RedactCredentialUrl(scheme, s) ==
  LET matchLen == [i \in 1..Len(s) |-> CredentialUrlLen(scheme, s, i)]
  IN ReplaceAll(s, matchLen, <<scheme, ":", "/", "/", "<credentials>", "@", "<host>">>)

\* ErrorHandler.ts 112-115, one line of them
RedactPlainUrl(scheme, s) ==
  LET matchLen == [i \in 1..Len(s) |-> PlainUrlLen(scheme, s, i)]
  IN ReplaceAll(s, matchLen, <<scheme, ":", "/", "/", "<host>">>)

\* ErrorHandler.ts 118-120, one line of them
RedactLabel(label, atWordStart, s) ==
  LET matchLen == [i \in 1..Len(s) |-> LabelLen(label, atWordStart, s, i)]
  IN ReplaceAll(s, matchLen, <<label, "=", "<redacted>">>)

GenericMessage == <<"An", " ", "error", " ", "occurred">>
UnexpectedMessage == <<"An", " ", "unexpected", " ", "error", " ", "occurred">>

\* ErrorHandler.ts 100-128: the redaction passes, in the order of the code;
\* each pass is applied to the value the one before it produced
RedactionPasses(message) ==
  LET NotStackLine(line) == ~IsStackLine(line)
      sanitizedLines == SelectSeq(SplitLines(message), NotStackLine)
      s0 == { Trim(JoinLines(sanitizedLines)) }
      s1 == { RedactCredentialUrl("redis", s) : s \in s0 }
      s2 == { RedactCredentialUrl("mongodb", s) : s \in s1 }
      s3 == { RedactCredentialUrl("postgresql", s) : s \in s2 }
      s4 == { RedactCredentialUrl("falkordb", s) : s \in s3 }
      s5 == { RedactPlainUrl("redis", s) : s \in s4 }
      s6 == { RedactPlainUrl("mongodb", s) : s \in s5 }
      s7 == { RedactPlainUrl("postgresql", s) : s \in s6 }
      s8 == { RedactPlainUrl("falkordb", s) : s \in s7 }
      s9 == { RedactLabel("password", FALSE, s) : s \in s8 }
      s10 == { RedactLabel("token", TRUE, s) : s \in s9 }
      s11 == { RedactLabel("apikey", FALSE, s) : s \in s10 }
      s12 == { ReplaceAll(s, [i \in 1..Len(s) |-> HostPortLen(s, i)],
                          <<"<host>", ":", "<port>">>) : s \in s11 }
      s13 == { ReplaceAll(s, [i \in 1..Len(s) |-> LocalhostLen(s, i)],
                          <<"localhost", ":", "<port>">>) : s \in s12 }
      s14 == { ReplaceAll(s, [i \in 1..Len(s) |-> PathLen(s, i)],
                          <<"<path>">>) : s \in s13 }
      s15 == { ReplaceAll(s, [i \in 1..Len(s) |-> WinPathLen(s, i)],
                          <<"<path>">>) : s \in s14 }
  IN CHOOSE sanitized_ \in s15 : TRUE

\* ErrorHandler.ts 95-131
SanitizeErrorMessage(message) ==
  IF message = <<>> THEN GenericMessage
  ELSE LET sanitizedMessage == RedactionPasses(message)
       IN IF sanitizedMessage = <<>> THEN GenericMessage ELSE sanitizedMessage

\* the values a catch block can hand over: an AppError (name, message,
\* isOperational), another Error, or a value that is not an Error at all
ErrorKinds == {"AppError", "Error"}
NonErrors == {"object", "null", "undefined"}

\* mutant of ToMcpErrorResult: every Error's message is sanitized
ToMcpErrorResultSanitizesAll(error) ==
  LET errorMessage ==
        IF error.kind = "AppError" THEN SanitizeErrorMessage(error.message)
        ELSE IF error.kind \in ErrorKinds THEN SanitizeErrorMessage(error.message)
        ELSE UnexpectedMessage
  IN [content |-> << [type |-> "text", text |-> <<"Error", ":", " ">> \o errorMessage] >>,
      isError |-> TRUE]

\* ErrorHandler.ts 67-88
ToMcpErrorResult(error) ==
  LET errorMessage ==
        IF error.kind = "AppError" THEN error.message
        ELSE IF error.kind \in ErrorKinds THEN SanitizeErrorMessage(error.message)
        ELSE UnexpectedMessage
  IN [content |-> << [type |-> "text", text |-> <<"Error", ":", " ">> \o errorMessage] >>,
      isError |-> TRUE]

\* the pieces of text an internal failure's message is put together from
Fragments ==
  { <<"redis", ":", "/", "/">>, <<"@">>, <<":">>, <<"password", "=">>, <<"x">>,
    <<"\n">>, <<"at", " ">>, <<"/">>,
    <<"1", ".", "1", ".", "1", ".", "1", ":", "1">> }

RECURSIVE MessagesOf(_)
MessagesOf(n) ==
  IF n = 0 THEN {<<>>}
  ELSE LET shorter == MessagesOf(n - 1)
       IN shorter \cup { m \o f : m \in shorter, f \in Fragments }

Messages == MessagesOf(MaxFragments)

\* an AppError carries isOperational; instanceof AppError fails for the rest
ErrorClasses ==
  { [kind |-> "AppError", isOperational |-> TRUE],
    [kind |-> "AppError", isOperational |-> FALSE],
    [kind |-> "Error", isOperational |-> FALSE] }

Failures ==
  { [kind |-> class.kind, message |-> message,
     isAppError |-> (class.kind = "AppError"),
     isOperational |-> class.isOperational] :
       class \in ErrorClasses, message \in Messages }
    \cup { [kind |-> kind, message |-> <<>>, isAppError |-> FALSE,
            isOperational |-> FALSE] : kind \in NonErrors }

NoResult == [content |-> <<>>, isError |-> FALSE]

\* a catch block hands the failure to errorHandler.toMcpErrorResult
Convert ==
  /\ proc = "running"
  /\ mcpResult = NoResult
  /\ mcpResult' = ToMcpErrorResult(failure)
  /\ UNCHANGED <<failure, sanitized>>
  /\ UNCHANGED offErr

\* sanitizeErrorMessage has run on the message of a generic Error; it is run
\* again on the same message, and then on its own output
Sanitize ==
  /\ failure.kind = "Error"
  /\ mcpResult # NoResult
  /\ Len(sanitized) < 2
  /\ sanitized' = Append(sanitized,
       SanitizeErrorMessage(IF sanitized = <<>> THEN failure.message
                                               ELSE sanitized[Len(sanitized)]))
  /\ UNCHANGED <<failure, mcpResult>>
  /\ UNCHANGED offErr

\* the failure reaches the process-level handler instead, which ends with
\* errorHandler.crashIfUntrustedError(error)
CrashIfUntrusted ==
  /\ proc = "running"
  /\ ~crashChecked
  /\ mcpResult = NoResult
  /\ proc' = CrashIfUntrustedError(failure, proc)
  /\ exitCode' = ExitCode(failure, exitCode)
  /\ crashLog' = CrashLog(failure, crashLog)
  /\ crashChecked' = TRUE
  /\ UNCHANGED <<apiKey, removed, sessions, transports, uuids, arrived, handlers, done,
                 deleted, rejections, log>>
  /\ UNCHANGED errVars
  /\ UNCHANGED offCrash

\* ------------------------------------------------------------ tool handlers
ToolNames ==
  {"query_graph", "query_graph_readonly", "list_graphs", "delete_graph",
   "set_key", "get_key", "delete_key", "list_keys"}

\* z.string() inputs: empty, whitespace only, or with content
Texts == {<<>>, <<" ">>, <<"x">>}

\* readOnly: z.boolean().optional()
ReadOnlyFlags == {"undefined", "true", "false"}

\* config.falkorDB.defaultReadOnly / strictReadOnly and NODE_ENV
ToolConfigs ==
  [defaultReadOnly : BOOLEAN, strictReadOnly : BOOLEAN, nodeEnv : NodeEnvs]

NoArgs ==
  [graphName |-> <<>>, query |-> <<>>, readOnly |-> "undefined",
   key |-> <<>>, value |-> <<>>]

\* the arguments each tool's input schema lets through
ArgsOf(tool) ==
  CASE tool = "query_graph" ->
         { [NoArgs EXCEPT !.graphName = g, !.query = q, !.readOnly = r] :
             g \in Texts, q \in Texts, r \in ReadOnlyFlags }
    [] tool = "query_graph_readonly" ->
         { [NoArgs EXCEPT !.graphName = g, !.query = q] : g \in Texts, q \in Texts }
    [] tool = "delete_graph" ->
         { [NoArgs EXCEPT !.graphName = g] : g \in Texts }
    [] tool = "set_key" ->
         { [NoArgs EXCEPT !.key = k, !.value = v] : k \in Texts, v \in Texts }
    [] tool \in {"get_key", "delete_key"} ->
         { [NoArgs EXCEPT !.key = k] : k \in Texts }
    [] OTHER -> {NoArgs}

NoError ==
  [kind |-> "none", name |-> "", message |-> "", isAppError |-> FALSE,
   isOperational |-> FALSE]

\* new AppError(CommonErrors.INVALID_INPUT, message, true)
InvalidInput(message) ==
  [kind |-> "AppError", name |-> "INVALID_INPUT", message |-> message,
   isAppError |-> TRUE, isOperational |-> TRUE]

\* what a backend call may reject with: an AppError of the service, or whatever
\* the client library threw
BackendErrors ==
  { [kind |-> "AppError", name |-> "CONNECTION_FAILED",
     message |-> "Redis client not initialized. Call initialize() first.",
     isAppError |-> TRUE, isOperational |-> TRUE],
    [kind |-> "AppError", name |-> "OPERATION_FAILED",
     message |-> "Failed to set key 'x' in Redis: connect ECONNREFUSED 1.1.1.1:1",
     isAppError |-> TRUE, isOperational |-> TRUE],
    [kind |-> "Error", name |-> "Error",
     message |-> "FalkorDB client not initialized",
     isAppError |-> FALSE, isOperational |-> FALSE] }

NoCall == [service |-> "none", op |-> "", target |-> <<>>, readOnly |-> <<>>]

\* a call to a backend service; readOnly holds executeQuery's isReadOnly
\* argument and is empty for the operations that take none
Call(service, op, target, readOnly) ==
  [service |-> service, op |-> op, target |-> target, readOnly |-> readOnly]

\* the try block up to its first await: it throws, or it calls the backend
Throws(error) == [throws |-> TRUE, error |-> error, call |-> NoCall]
Awaits(call) == [throws |-> FALSE, error |-> NoError, call |-> call]

\* mutant of IsBlank: the text is not trimmed
IsBlankUntrimmed(text) == text = <<>>

\* !text?.trim()
IsBlank(text) == Trim(text) = <<>>

\* mutant of QueryGraph: strict read-only mode is not enforced
QueryGraphUnrestricted(cfg, args) ==
  IF IsBlank(args.graphName)
    THEN Throws(InvalidInput("Graph name is required and cannot be empty"))
  ELSE IF IsBlank(args.query)
    THEN Throws(InvalidInput("Query is required and cannot be empty"))
  ELSE LET isReadOnly == IF args.readOnly # "undefined"
                           THEN args.readOnly = "true"
                           ELSE cfg.defaultReadOnly
       IN Awaits(Call("falkorDBService", "executeQuery", args.graphName,
                      <<isReadOnly>>))

QueryGraph(cfg, args) ==
  IF IsBlank(args.graphName)
    THEN Throws(InvalidInput("Graph name is required and cannot be empty"))
  ELSE IF IsBlank(args.query)
    THEN Throws(InvalidInput("Query is required and cannot be empty"))
  ELSE LET isReadOnly == IF args.readOnly # "undefined"
                           THEN args.readOnly = "true"
                           ELSE cfg.defaultReadOnly
       IN IF cfg.strictReadOnly /\ ~isReadOnly
            THEN Throws(InvalidInput("Cannot execute write queries: server is in strict read-only mode"))
            ELSE Awaits(Call("falkorDBService", "executeQuery", args.graphName,
                             <<isReadOnly>>))

QueryGraphReadOnly(args) ==
  IF IsBlank(args.graphName)
    THEN Throws(InvalidInput("Graph name is required and cannot be empty"))
  ELSE IF IsBlank(args.query)
    THEN Throws(InvalidInput("Query is required and cannot be empty"))
  ELSE Awaits(Call("falkorDBService", "executeReadOnlyQuery", args.graphName, <<>>))

ListGraphs == Awaits(Call("falkorDBService", "listGraphs", <<>>, <<>>))

DeleteGraph(cfg, args) ==
  IF IsBlank(args.graphName)
    THEN Throws(InvalidInput("Graph name is required and cannot be empty"))
  ELSE IF cfg.strictReadOnly
    THEN Throws(InvalidInput("Cannot delete graphs: server is in strict read-only mode"))
  ELSE Awaits(Call("falkorDBService", "deleteGraph", args.graphName, <<>>))

\* the schema hands set_key a string, so `value === undefined || value === null`
\* is false
SetKey(args) ==
  IF IsBlank(args.key)
    THEN Throws(InvalidInput("Key is required and cannot be empty"))
  ELSE Awaits(Call("redisService", "set", args.key, <<>>))

GetKey(args) ==
  IF IsBlank(args.key)
    THEN Throws(InvalidInput("Key is required and cannot be empty"))
  ELSE Awaits(Call("redisService", "get", args.key, <<>>))

DeleteKey(args) ==
  IF IsBlank(args.key)
    THEN Throws(InvalidInput("Key is required and cannot be empty"))
  ELSE Awaits(Call("redisService", "delete", args.key, <<>>))

ListKeys == Awaits(Call("redisService", "listKeys", <<>>, <<>>))

\* registerAllTools: the handler registered under each name
ToolHandler(tool, cfg, args) ==
  CASE tool = "query_graph" -> QueryGraph(cfg, args)
    [] tool = "query_graph_readonly" -> QueryGraphReadOnly(args)
    [] tool = "list_graphs" -> ListGraphs
    [] tool = "delete_graph" -> DeleteGraph(cfg, args)
    [] tool = "set_key" -> SetKey(args)
    [] tool = "get_key" -> GetKey(args)
    [] tool = "delete_key" -> DeleteKey(args)
    [] tool = "list_keys" -> ListKeys

\* logger.debug writes only when NODE_ENV is development; logger.info always
LoggerDebug(entries, cfg, message) ==
  IF cfg.nodeEnv = "development"
    THEN Append(entries, [level |-> "DEBUG", message |-> message, error |-> NoError])
    ELSE entries

LoggerInfo(entries, message) ==
  Append(entries, [level |-> "INFO", message |-> message, error |-> NoError])

\* logger.error(message, error, context): name, message and stack are logged
LoggerError(entries, message, error) ==
  Append(entries, [level |-> "ERROR", message |-> message, error |-> error])

\* the success log of each handler
LogSuccess(entries, cfg, tool) ==
  IF tool = "delete_graph"
    THEN LoggerInfo(entries, "tool executed successfully")
    ELSE LoggerDebug(entries, cfg, "tool executed successfully")

NoToolResult == [content |-> "", isError |-> FALSE]

\* the value a handler returns on success: content only, no isError field
ToolResult == [content |-> "result", isError |-> FALSE]

NoToolCall ==
  [tool |-> "none", args |-> NoArgs, pc |-> "idle", error |-> NoError,
   result |-> NoToolResult]

\* the protocol layer calls the handler registered for the tool; the handler
\* runs to its first await: the backend call, or logger.error in its catch block
Invoke ==
  /\ toolCall = NoToolCall
  /\ \E tool \in ToolNames : \E args \in ArgsOf(tool) :
       LET plan == ToolHandler(tool, toolConfig, args)
       IN /\ toolCall' = [tool |-> tool, args |-> args,
                          pc |-> IF plan.throws THEN "logError" ELSE "backend",
                          error |-> plan.error, result |-> NoToolResult]
          /\ backendCalls' = IF plan.throws THEN backendCalls
                                            ELSE Append(backendCalls, plan.call)
  /\ UNCHANGED <<toolConfig, toolLog>>
  /\ UNCHANGED offTool

\* the awaited backend call resolves
BackendResolves ==
  /\ toolCall.pc = "backend"
  /\ toolCall' = [toolCall EXCEPT !.pc = "logSuccess"]
  /\ UNCHANGED <<toolConfig, backendCalls, toolLog>>
  /\ UNCHANGED offTool

\* the awaited backend call rejects: control enters the catch block
BackendRejects ==
  /\ toolCall.pc = "backend"
  /\ \E error \in BackendErrors :
       toolCall' = [toolCall EXCEPT !.pc = "logError", !.error = error]
  /\ UNCHANGED <<toolConfig, backendCalls, toolLog>>
  /\ UNCHANGED offTool

\* await logger.debug / logger.info(...); return { content }
ReturnContent ==
  /\ toolCall.pc = "logSuccess"
  /\ toolLog' = LogSuccess(toolLog, toolConfig, toolCall.tool)
  /\ toolCall' = [toolCall EXCEPT !.pc = "returned", !.result = ToolResult]
  /\ UNCHANGED <<toolConfig, backendCalls>>
  /\ UNCHANGED offTool

\* catch (error) { await logger.error(...); throw error; }
LogAndRethrow ==
  /\ toolCall.pc = "logError"
  /\ toolLog' = LoggerError(toolLog, "tool execution failed", toolCall.error)
  /\ toolCall' = [toolCall EXCEPT !.pc = "threw"]
  /\ UNCHANGED <<toolConfig, backendCalls>>
  /\ UNCHANGED offTool

\* ------------------------------------------------------------ specification
NothingObserved == [op |-> "none"]

TenantIdle ==
  /\ mtConfig = [enabled |-> FALSE, tenantGraphPrefix |-> FALSE]
  /\ calls = <<>>
  /\ observed = NothingObserved

AuthIdle ==
  /\ authConfig = [enabled |-> FALSE, authMode |-> "api-key",
                   nodeEnv |-> "production", apiKey |-> ""]
  /\ authArrived = 0
  /\ authPending = <<>>
  /\ authDone = NoAuthRequest

ToolIdle ==
  /\ toolConfig = [defaultReadOnly |-> FALSE, strictReadOnly |-> FALSE,
                   nodeEnv |-> "development"]
  /\ toolCall = NoToolCall
  /\ backendCalls = <<>>
  /\ toolLog = <<>>

CrashIdle ==
  /\ exitCode = Undefined
  /\ crashLog = <<>>
  /\ crashChecked = FALSE

ErrIdle ==
  /\ failure = [kind |-> "undefined", message |-> <<>>, isAppError |-> FALSE,
                isOperational |-> FALSE]
  /\ mcpResult = NoResult
  /\ sanitized = <<>>

\* redis.service.ts 7, index.ts 780: no client
NoClient == 0

\* index.ts 781: no init promise
NoInit == 0

RedisIdle ==
  /\ redis = [client |-> NoClient, retryCount |-> 0, initializingPromise |-> FALSE,
              pc |-> "none", attempt |-> 0, closing |-> FALSE, closed |-> FALSE]
  /\ redisCalls = <<>>

FalkorIdle ==
  /\ falkor = [client |-> NoClient, initPromise |-> NoInit, retryCount |-> 0,
               inits |-> <<>>, timers |-> 0,
               exited |-> FALSE, closing |-> FALSE]
  /\ falkorCalls = [pending |-> <<>>,
                    last |-> [phase |-> "none", outcome |-> "none",
                              error |-> <<>>, hadClient |-> FALSE,
                              cleared |-> TRUE, unchanged |-> TRUE]]

NoLogCall ==
  [method |-> "", pc |-> "idle", servers |-> {}, attempted |-> {}, pending |-> {},
   failed |-> {}, returned |-> FALSE, raised |-> FALSE, written |-> FALSE]

LogIdle ==
  /\ logger = [mcpServers |-> {}, logFile |-> FALSE, nodeEnv |-> "production"]
  /\ logCall = NoLogCall

NotStarted ==
  [transport |-> "stdio", pc |-> "none", http |-> "none", graph |-> "none",
   kv |-> "none", redirected |-> FALSE, bound |-> FALSE, shutdown |-> FALSE,
   faults |-> 0, logged |-> 0,
   fault |-> [isAppError |-> TRUE, isOperational |-> TRUE],
   exit |-> Undefined, exitBy |-> "none", open |-> 0, reason |-> "none"]

LifeIdle ==
  /\ life = NotStarted
  /\ streams = <<>>

SvcIdle == RedisIdle /\ FalkorIdle /\ LogIdle /\ LifeIdle

HttpInit ==
  /\ apiKey \in ApiKeys
  /\ sessions = EmptyMap
  /\ transports = <<>>
  /\ uuids = 0
  /\ arrived = 0
  /\ handlers = <<>>
  /\ done = NoRequest
  /\ deleted = {}
  /\ removed = {}
  /\ rejections = <<>>
  /\ proc = "running"
  /\ log = <<>>

Init ==
  HttpInit /\ TenantIdle /\ AuthIdle /\ ErrIdle /\ CrashIdle /\ ToolIdle /\ SvcIdle

\* The name resolver on its own: the configuration is fixed at start-up and
\* resolveGraphName is called with every logical name and tenant context;
\* two calls are kept side by side
HttpIdle ==
  /\ apiKey = ""
  /\ sessions = EmptyMap
  /\ transports = <<>>
  /\ uuids = 0
  /\ arrived = 0
  /\ handlers = <<>>
  /\ done = NoRequest
  /\ deleted = {}
  /\ removed = {}
  /\ rejections = <<>>
  /\ proc = "running"
  /\ log = <<>>

TenantInit ==
  /\ HttpIdle
  /\ AuthIdle
  /\ ErrIdle
  /\ CrashIdle
  /\ ToolIdle
  /\ SvcIdle
  /\ mtConfig \in MtConfigs
  /\ calls = <<>>
  /\ observed = NothingObserved

Resolve ==
  /\ Len(calls) < 2
  /\ \E graphName \in GraphNames, tenantId \in TenantIds :
       LET call == [graphName |-> graphName, tenantId |-> tenantId,
                    result |-> ResolveGraphName(mtConfig, graphName, tenantId)]
       IN calls' = Append(calls, call)
  /\ UNCHANGED <<mtConfig, observed>>
  /\ UNCHANGED offTenant

\* the physical names the resolver has handed to the backend, in call order
ResolvedNames == [k \in 1..Len(calls) |-> calls[k].result]

\* extractTenantFromGraphName applied to a name the resolver produced; one
\* extraction or listing is observed per run
Extract ==
  /\ observed = NothingObserved
  /\ \E k \in 1..Len(calls) :
       observed' = [op |-> "extract", of |-> k,
                    result |-> ExtractTenantFromGraphName(mtConfig, calls[k].result)]
  /\ UNCHANGED <<mtConfig, calls>>
  /\ UNCHANGED offTenant

\* filterGraphsForTenant applied to the list of the names resolved so far
Filter ==
  /\ observed = NothingObserved
  /\ calls # <<>>
  /\ \E tenantId \in TenantIds :
       observed' = [op |-> "filter", tenantId |-> tenantId,
                    allGraphs |-> ResolvedNames,
                    result |-> FilterGraphsForTenant(mtConfig, ResolvedNames, tenantId)]
  /\ UNCHANGED <<mtConfig, calls>>
  /\ UNCHANGED offTenant

TenantNext == Resolve \/ Extract \/ Filter

TenantSpec == TenantInit /\ [][TenantNext]_vars

\* part_002 87-90
ValidateTenantAccess(cfg, graphName, tenantId, allGraphs) ==
  LET resolvedGraphName == ResolveGraphName(cfg, graphName, tenantId)
  IN \E k \in 1..Len(allGraphs) : allGraphs[k] = resolvedGraphName

\* validateTenantAccess applied to the list of the names resolved so far; the
\* caller asks for any logical name, or for a physical name as the backend
\* knows it
Validate ==
  /\ observed = NothingObserved
  /\ calls # <<>>
  /\ \E tenantId \in TenantIds,
        graphName \in GraphNames \cup {ResolvedNames[k] : k \in 1..Len(calls)} :
       observed' = [op |-> "access", graphName |-> graphName,
                    tenantId |-> tenantId, allGraphs |-> ResolvedNames,
                    result |-> ValidateTenantAccess(mtConfig, graphName, tenantId,
                                                    ResolvedNames)]
  /\ UNCHANGED <<mtConfig, calls>>
  /\ UNCHANGED offTenant

\* The name resolver with the access check: as TenantSpec, and one access
\* check is observed per run
AccessNext == Resolve \/ Filter \/ Validate

AccessSpec == TenantInit /\ [][AccessNext]_vars

Next ==
  \/ Receive
  \/ \E i \in 1..Len(handlers) : ReadBody(i)
  \/ \E i \in 1..Len(handlers) : ConnectDone(i)
  \/ \E i \in 1..Len(handlers) : EngineInit(i)
  \/ \E i \in 1..Len(handlers) : InitResume(i)
  \/ \E i \in 1..Len(handlers) : EngineHandle(i)
  \/ \E i \in 1..Len(handlers) : EngineDelete(i)
  \/ \E i \in 1..Len(handlers) : DeleteResume(i)
  \/ \E t \in 1..Len(transports) : TransportClose(t)
  \/ ProcessHandlers

Spec == Init /\ [][Next]_vars

\* The authentication middleware on its own: the configuration is fixed at
\* start-up, requests arrive and the signing-key lookups settle in any order
AuthInit ==
  /\ HttpIdle
  /\ TenantIdle
  /\ ErrIdle
  /\ CrashIdle
  /\ ToolIdle
  /\ SvcIdle
  /\ authConfig \in AuthConfigs
  /\ authArrived = 0
  /\ authPending = <<>>
  /\ authDone = NoAuthRequest

AuthNext ==
  \/ AuthReceive
  \/ \E i \in 1..Len(authPending) : SigningKeySettled(i)

AuthSpec == AuthInit /\ [][AuthNext]_vars

\* The error handler on its own: one failure value, handed either to
\* toMcpErrorResult (the sanitizer is then applied to its message twice over)
\* or to crashIfUntrustedError
ErrInit ==
  /\ HttpIdle
  /\ TenantIdle
  /\ AuthIdle
  /\ CrashIdle
  /\ ToolIdle
  /\ SvcIdle
  /\ failure \in Failures
  /\ mcpResult = NoResult
  /\ sanitized = <<>>

ErrNext == Convert \/ Sanitize \/ CrashIfUntrusted

ErrSpec == ErrInit /\ [][ErrNext]_vars

\* The tool handlers on their own: one tool call, from the protocol layer's
\* invocation of the handler to the handler's return or throw
ToolInit ==
  /\ HttpIdle
  /\ TenantIdle
  /\ AuthIdle
  /\ ErrIdle
  /\ CrashIdle
  /\ SvcIdle
  /\ toolConfig \in ToolConfigs
  /\ toolCall = NoToolCall
  /\ backendCalls = <<>>
  /\ toolLog = <<>>

ToolNext == Invoke \/ BackendResolves \/ BackendRejects \/ ReturnContent \/ LogAndRethrow

ToolSpec == ToolInit /\ [][ToolNext]_vars

\* ------------------------------------------------------------ RedisService
\* redis.service.ts 8
maxRetries == 5

\* the part of the service's state a call can observe or change
ServiceState(r) ==
  [client |-> r.client, retryCount |-> r.retryCount,
   initializingPromise |-> r.initializingPromise]

\* a call to the service as it is made: the client it found on entry, and for
\* a call that waited for the initialization the service's state after it
RedisCall(op, r) ==
  [op |-> op, pc |-> "done", outcome |-> "resolved", message |-> "",
   joined |-> r.initializingPromise, early |-> FALSE, created |-> 0,
   touched |-> FALSE, entry |-> r.client,
   after |-> [client |-> NoClient, retryCount |-> 0,
              initializingPromise |-> FALSE]]

\* redis.service.ts 58-64: a new client replaces the field, connect() is
\* awaited; the client is known by the attempt that created it
CreateClient(r) == [r EXCEPT !.client = r.attempt + 1, !.pc = "connect"]

\* mutant of ShouldRetry: the last attempt is retried as well
ShouldRetryOnceMore(attempt) == attempt <= maxRetries

\* redis.service.ts 82: a failed attempt is retried while attempt < maxRetries
ShouldRetry(attempt) == attempt < maxRetries

\* mutant of NotInitialized: the operation never checks the client
NotInitializedUnchecked(r) == FALSE

\* redis.service.ts 109, 134, 158, 182: `if (!this.client)`
NotInitialized(r) == r.client = NoClient

\* redis.service.ts 124, 148, 172, 211: the message of the OPERATION_FAILED error
OperationFailedMessage(op, cause) ==
  CASE op = "get" -> "Failed to get key 'k' from Redis: " \o cause
    [] op = "set" -> "Failed to set key 'k' in Redis: " \o cause
    [] op = "delete" -> "Failed to delete key 'k' from Redis: " \o cause
    [] op = "listKeys" -> "Failed to list keys in Redis: " \o cause

\* redis.service.ts 29-47: initialize() up to its first await; a call that finds
\* a client returns at once, one that finds the promise returns it, and
\* otherwise _initialize starts and runs to the await of connect()
Initialize ==
  /\ Len(redisCalls) < MaxRedisCalls
  /\ LET call == RedisCall("initialize", redis)
         called == [redis EXCEPT !.closed = FALSE]
     IN IF redis.client # NoClient
          THEN /\ redisCalls' = Append(redisCalls,
                    [call EXCEPT !.early = redis.initializingPromise,
                                 !.after = ServiceState(redis)])
               /\ redis' = called
          ELSE IF redis.initializingPromise
            THEN /\ redisCalls' = Append(redisCalls,
                      [call EXCEPT !.pc = "awaitInit", !.outcome = "pending"])
                 /\ redis' = called
            ELSE /\ redis' = CreateClient([called EXCEPT !.retryCount = 0,
                                 !.initializingPromise = TRUE, !.attempt = 0])
                 /\ redisCalls' = Append(redisCalls,
                      [call EXCEPT !.pc = "awaitInit", !.outcome = "pending",
                                   !.created = 1])
  /\ UNCHANGED offRedis

\* redis.service.ts 42-46, 36: _initialize has settled; the call that started it
\* clears the promise in its finally, and every call awaiting the promise
\* settles the same way in the same turn
SettleInitialize(r, outcome) ==
  LET settled == [r EXCEPT !.pc = "none", !.initializingPromise = FALSE]
  IN /\ redis' = settled
     /\ redisCalls' = [i \in DOMAIN redisCalls |->
          IF redisCalls[i].pc = "awaitInit"
            THEN [redisCalls[i] EXCEPT !.pc = "done", !.outcome = outcome,
                                       !.after = ServiceState(settled)]
            ELSE redisCalls[i]]

\* redis.service.ts 80-103: after the clean-up the client is null and the
\* attempt is retried after a delay or given up
AfterFailure(r) ==
  IF ShouldRetry(r.attempt)
    THEN [r EXCEPT !.client = NoClient, !.retryCount = r.attempt + 1, !.pc = "delay"]
    ELSE [r EXCEPT !.client = NoClient, !.pc = "logError"]

\* redis.service.ts 71-79: the catch block disconnects the client when the
\* field is set; when it is null the block goes on at once
CleanUp(r) ==
  IF r.client # NoClient THEN [r EXCEPT !.pc = "disconnect"] ELSE AfterFailure(r)

\* redis.service.ts 64-65, 71-75: connect() settles; a failure goes to the
\* clean-up of the client, and so does a success when the field has been set
\* to null in the meantime: `this.client.ping()` then throws inside the try
ConnectSettles ==
  /\ redis.pc = "connect"
  /\ \E ok \in BOOLEAN :
       redis' = IF ok /\ redis.client # NoClient
                  THEN [redis EXCEPT !.pc = "ping"]
                  ELSE CleanUp(redis)
  /\ UNCHANGED redisCalls
  /\ UNCHANGED offRedis

\* redis.service.ts 65-70, 71-75: ping() settles; success ends _initialize
PingSettles ==
  /\ redis.pc = "ping"
  /\ \E ok \in BOOLEAN :
       IF ok
         THEN SettleInitialize([redis EXCEPT !.retryCount = 0], "resolved")
         ELSE /\ redis' = CleanUp(redis)
              /\ UNCHANGED redisCalls
  /\ UNCHANGED offRedis

\* redis.service.ts 75-103: disconnect() settles either way; the client is
\* dropped and the attempt is retried after a delay or given up
DisconnectSettles ==
  /\ redis.pc = "disconnect"
  /\ redis' = AfterFailure(redis)
  /\ UNCHANGED redisCalls
  /\ UNCHANGED offRedis

\* redis.service.ts 93, 50: the delay is over; the loop goes on with the next
\* attempt, or ends when attempt exceeds maxRetries
DelayElapses ==
  /\ redis.pc = "delay"
  /\ IF redis.attempt + 1 <= maxRetries
       THEN /\ redis' = CreateClient([redis EXCEPT !.attempt = @ + 1])
            /\ UNCHANGED redisCalls
       ELSE SettleInitialize([redis EXCEPT !.attempt = @ + 1], "resolved")
  /\ UNCHANGED offRedis

\* redis.service.ts 95-102: the permanent failure has been logged and is thrown
GiveUp ==
  /\ redis.pc = "logError"
  /\ SettleInitialize(redis, "CONNECTION_FAILED")
  /\ UNCHANGED offRedis

KeyOperations == {"get", "set", "delete", "listKeys"}

\* redis.service.ts 108-118, 133-143, 157-167, 181-195: a key-value operation
\* up to its first await
KeyOperation ==
  /\ Len(redisCalls) < MaxRedisCalls
  /\ \E op \in KeyOperations :
       LET call == RedisCall(op, redis)
       IN redisCalls' = Append(redisCalls,
            IF NotInitialized(redis)
              THEN [call EXCEPT !.outcome = "CONNECTION_FAILED",
                     !.message = "Redis client not initialized. Call initialize() first."]
              ELSE [call EXCEPT !.pc = "store", !.outcome = "pending",
                                !.touched = TRUE])
  /\ UNCHANGED redis
  /\ UNCHANGED offRedis

\* redis.service.ts 118-127, 143-151, 167-175, 194-214: the store answers; a
\* scan with a non-zero cursor is followed by another scan
StoreSettles(i) ==
  /\ redisCalls[i].pc = "store"
  /\ \E answer \in {"ok", "more", "boom", "Socket closed unexpectedly"} :
       /\ answer = "more" => redisCalls[i].op = "listKeys"
       /\ redisCalls' = [redisCalls EXCEPT ![i] =
            CASE answer = "ok" ->
                   [@ EXCEPT !.pc = "done", !.outcome = "resolved"]
              [] answer = "more" -> @
              [] OTHER ->
                   [@ EXCEPT !.pc = "logError",
                             !.message =
                               OperationFailedMessage(redisCalls[i].op, answer)]]
  /\ UNCHANGED redis
  /\ UNCHANGED offRedis

\* redis.service.ts 128-129, 152-153, 176-177, 215-216: the failure has been
\* logged and the AppError is thrown
OperationFails(i) ==
  /\ redisCalls[i].pc = "logError"
  /\ redisCalls' = [redisCalls EXCEPT ![i] =
       [@ EXCEPT !.pc = "done", !.outcome = "OPERATION_FAILED"]]
  /\ UNCHANGED redis
  /\ UNCHANGED offRedis

\* The key-value service on its own: calls to initialize and to the key
\* operations arrive while connection attempts and store calls settle
RedisInit ==
  HttpIdle /\ TenantIdle /\ AuthIdle /\ ErrIdle /\ CrashIdle /\ ToolIdle /\ SvcIdle

RedisNext ==
  \/ Initialize
  \/ ConnectSettles
  \/ PingSettles
  \/ DisconnectSettles
  \/ DelayElapses
  \/ GiveUp
  \/ KeyOperation
  \/ \E i \in 1..Len(redisCalls) : StoreSettles(i)
  \/ \E i \in 1..Len(redisCalls) : OperationFails(i)

RedisSpec == RedisInit /\ [][RedisNext]_vars

\* redis.service.ts 220-222: close() is called; with a client it awaits
\* client.quit(), without one it resolves at once and changes nothing
RedisClose ==
  /\ ~redis.closing
  /\ redis' = IF redis.client # NoClient
                THEN [redis EXCEPT !.closing = TRUE]
                ELSE [redis EXCEPT !.closed = TRUE]
  /\ UNCHANGED redisCalls
  /\ UNCHANGED offRedis

\* redis.service.ts 223-231: quit() settles either way and the finally block
\* runs; close() has resolved
QuitSettles ==
  /\ redis.closing
  /\ redis' = [redis EXCEPT !.client = NoClient, !.retryCount = 0,
                            !.closing = FALSE, !.closed = TRUE]
  /\ UNCHANGED redisCalls
  /\ UNCHANGED offRedis

\* The key-value service with close(): as RedisSpec, and close() can be called
\* at any of the service's awaits
RedisCloseNext == RedisNext \/ RedisClose \/ QuitSettles

RedisCloseSpec == RedisInit /\ [][RedisCloseNext]_vars

\* every promise the connection loop awaits settles: connect, ping and
\* disconnect answer or fail, the timer fires, the log call returns
RedisFairSpec ==
  RedisSpec /\ WF_vars(ConnectSettles \/ PingSettles \/ DisconnectSettles
                       \/ DelayElapses \/ GiveUp)

\* --------------------------------------------------------- FalkorDBService
\* what the backend and the timeouts reject with; <<>> is an error without a
\* message
FalkorErrors ==
  {<<"Connection", "lost">>, <<"Query", "execution", "timeout">>,
   <<"getaddrinfo", "ENOTFOUND">>, <<"Network", "unreachable">>,
   <<"Socket", "closed">>, <<"Invalid", "input">>, <<>>}

\* index.ts 975: String.prototype.toLowerCase on a fragment of a message
ToLowerCase(fragment) ==
  CASE fragment = "Connection" -> "connection"
    [] fragment = "ECONNREFUSED" -> "econnrefused"
    [] fragment = "ENOTFOUND" -> "enotfound"
    [] fragment = "Network" -> "network"
    [] fragment = "Socket" -> "socket"
    [] fragment = "Query" -> "query"
    [] fragment = "Invalid" -> "invalid"
    [] OTHER -> fragment

\* mutant of IsConnectionError: the message is searched as it is written
IsConnectionErrorCaseSensitive(error) ==
  /\ error # <<>>
  /\ \E i \in 1..Len(error) :
       error[i] \in {"connection", "timeout", "network", "econnrefused",
                     "enotfound", "closed"}

\* index.ts 972-982
IsConnectionError(error) ==
  /\ error # <<>>
  /\ \E i \in 1..Len(error) :
       ToLowerCase(error[i]) \in {"connection", "timeout", "network",
                                  "econnrefused", "enotfound", "closed"}

\* a number no connection, promise or call in flight is known by
NewId ==
  LET live == {falkor.client, falkor.initPromise}
                \cup {falkor.inits[k].id : k \in 1..Len(falkor.inits)}
                \cup {falkorCalls.pending[i].promise : i \in 1..Len(falkorCalls.pending)}
                \cup {falkorCalls.pending[i].used : i \in 1..Len(falkorCalls.pending)}
  IN CHOOSE n \in 1..(Cardinality(live) + 1) :
       n \notin live /\ \A m \in 1..(n - 1) : m \in live

\* index.ts 797-810: init() up to the await of the connection; the init, its
\* promise and the connection it makes are known by one number
StartInit(f, by) ==
  [f EXCEPT !.inits = Append(@, [id |-> NewId, by |-> by, pc |-> "connect"])]

\* index.ts 790-795
EnsureInitialized(f) ==
  IF f.initPromise = NoInit
    THEN [StartInit(f, "caller") EXCEPT !.initPromise = NewId]
    ELSE f

\* the promise of init number p has not settled
InitPending(f, p) == \E k \in 1..Len(f.inits) : f.inits[k].id = p

\* index.ts 901-906, 939-944: the catch block of executeQuery and listGraphs
ResetOnConnectionError(f, error) ==
  IF IsConnectionError(error)
    THEN [f EXCEPT !.client = NoClient, !.initPromise = NoInit]
    ELSE f

\* what the calls look like after a step that ended one or more of them, in
\* the given phase and with the given outcome, and took the service from f to g
Finish(pending, phase, outcome, error, f, g) ==
  [pending |-> pending,
   last |-> [phase |-> phase, outcome |-> outcome, error |-> error,
             hadClient |-> f.client # NoClient,
             cleared |-> g.client = NoClient /\ g.initPromise = NoInit,
             unchanged |-> g.client = f.client /\ g.initPromise = f.initPromise]]

\* index.ts 872-881, 919-926: the call goes on after ensureInitialized
AfterInit(call, f) ==
  IF call.op = "executeQuery" THEN [call EXCEPT !.pc = "import"]
  ELSE [call EXCEPT !.pc = "query", !.used = f.client]

\* the calls in flight that wait for the promise of init number p
Waiting(p) ==
  {i \in 1..Len(falkorCalls.pending) :
     falkorCalls.pending[i].pc = "awaitInit" /\ falkorCalls.pending[i].promise = p}

\* the sequence s without the positions in drop
Without(s, drop) ==
  LET keep(i) == Cardinality({j \in 1..i : j \notin drop})
      n == Cardinality(DOMAIN s \ drop)
  IN [k \in 1..n |-> s[CHOOSE i \in DOMAIN s \ drop : keep(i) = k]]

\* index.ts 870-873, 917-921: executeQuery or listGraphs is called; it goes
\* through ensureInitialized and waits for the promise unless that is settled
FalkorCall ==
  /\ ~falkor.exited
  /\ Len(falkorCalls.pending) < MaxInFlight
  /\ \E op \in {"executeQuery", "listGraphs"} :
       LET f == EnsureInitialized(falkor)
           call == [op |-> op, pc |-> "awaitInit", promise |-> f.initPromise,
                    used |-> NoClient]
       IN /\ falkor' = f
          /\ IF InitPending(f, f.initPromise)
               THEN falkorCalls' = [falkorCalls EXCEPT !.pending = Append(@, call)]
               ELSE IF f.client = NoClient
                 THEN falkorCalls' = Finish(falkorCalls.pending, "check",
                         "rejected", <<"FalkorDB", "client", "not", "initialized">>,
                         falkor, f)
                 ELSE falkorCalls' = [falkorCalls EXCEPT !.pending =
                                        Append(@, AfterInit(call, f))]
  /\ UNCHANGED offFalkor

\* index.ts 816-825: the catch block of init(); the client and the promise
\* are dropped, a retry is scheduled whatever retryCount is, and the error is
\* rethrown: to the waiting calls, or to nobody when a timer started the init
InitFails(k, error) ==
  LET init == falkor.inits[k]
      f == [falkor EXCEPT !.client = NoClient, !.initPromise = NoInit,
              !.retryCount = @ + 1, !.timers = @ + 1,
              !.inits = Without(@, {k}),
              !.exited = @ \/ init.by = "timer"]
      waiting == Waiting(init.id)
  IN /\ falkor' = f
     /\ IF waiting = {}
          THEN UNCHANGED falkorCalls
          ELSE falkorCalls' = Finish(Without(falkorCalls.pending, waiting),
                 "init", "rejected", error, falkor, f)

\* index.ts 800-810: the connection attempt settles
InitConnectSettles(k) ==
  /\ ~falkor.exited
  /\ falkor.inits[k].pc = "connect"
  /\ \E ok \in BOOLEAN :
       IF ok
         THEN /\ falkor' = [falkor EXCEPT !.client = falkor.inits[k].id,
                                          !.inits[k].pc = "ping"]
              /\ UNCHANGED falkorCalls
         ELSE /\ falkor.retryCount < MaxFailures
              /\ falkor.timers < MaxFailures
              /\ InitFails(k, <<"connect", "ECONNREFUSED">>)
  /\ UNCHANGED offFalkor

\* index.ts 813-815, 872-881, 919-926: the ping settles; on success the
\* promise is fulfilled and the calls that wait for it go on in the same turn
InitPingSettles(k) ==
  /\ ~falkor.exited
  /\ falkor.inits[k].pc = "ping"
  /\ \E ok \in BOOLEAN :
       IF ok
         THEN LET waiting == Waiting(falkor.inits[k].id)
                  f == [falkor EXCEPT !.inits = Without(@, {k})]
              IN /\ falkor' = f
                 /\ IF waiting = {} THEN UNCHANGED falkorCalls
                    ELSE IF f.client = NoClient
                      THEN falkorCalls' = Finish(
                             Without(falkorCalls.pending, waiting), "check",
                             "rejected", <<"FalkorDB", "client", "not", "initialized">>,
                             falkor, f)
                      ELSE falkorCalls' = [falkorCalls EXCEPT !.pending =
                             [i \in DOMAIN @ |->
                                IF i \in waiting THEN AfterInit(@[i], f) ELSE @[i]]]
         ELSE /\ falkor.retryCount < MaxFailures
              /\ falkor.timers < MaxFailures
              /\ InitFails(k, <<"Ping", "timeout">>)
  /\ UNCHANGED offFalkor

\* index.ts 823: a retry timer fires and calls init() again, keeping neither
\* the promise nor an eye on maxRetries
TimerFires ==
  /\ ~falkor.exited
  /\ falkor.timers > 0
  /\ Cardinality({k \in 1..Len(falkor.inits) : falkor.inits[k].by = "timer"})
       < MaxInFlight
  /\ falkor' = [StartInit(falkor, "timer") EXCEPT !.timers = @ - 1]
  /\ UNCHANGED falkorCalls
  /\ UNCHANGED offFalkor

\* the TypeError of reading a property of null: `this.client.selectGraph`
\* (index.ts 881) evaluated when this.client is null
NullDereference == <<"Cannot", "read", "properties", "of", "null">>

\* index.ts 878-891, 897-908: the dynamic import is done; selectGraph on a
\* client that has gone in the meantime is a TypeError inside the try block
ImportSettles(i) ==
  /\ ~falkor.exited
  /\ falkorCalls.pending[i].pc = "import"
  /\ LET call == falkorCalls.pending[i]
         error == NullDereference
         f == ResetOnConnectionError(falkor, error)
     IN IF falkor.client = NoClient
          THEN /\ falkor' = f
               /\ falkorCalls' = Finish(Without(falkorCalls.pending, {i}),
                    "query", "rejected", error, falkor, f)
          ELSE /\ falkorCalls' = [falkorCalls EXCEPT !.pending[i] =
                    [@ EXCEPT !.pc = "query", !.used = falkor.client]]
               /\ UNCHANGED falkor
  /\ UNCHANGED offFalkor

\* index.ts 887-908, 925-946: the query or the listing settles
QuerySettles(i) ==
  /\ ~falkor.exited
  /\ falkorCalls.pending[i].pc = "query"
  /\ LET call == falkorCalls.pending[i]
     IN \/ LET f == IF call.op = "executeQuery"
                      THEN [falkor EXCEPT !.retryCount = 0] ELSE falkor
           IN /\ falkor' = f
              /\ falkorCalls' = Finish(Without(falkorCalls.pending, {i}),
                   "query", "resolved", <<>>, falkor, f)
        \/ \E error \in FalkorErrors :
             LET f == ResetOnConnectionError(falkor, error)
             IN /\ falkor' = f
                /\ falkorCalls' = Finish(Without(falkorCalls.pending, {i}),
                     "query", "rejected", error, falkor, f)
  /\ UNCHANGED offFalkor

\* index.ts 950-953: close() is called; with a client it awaits client.close(),
\* without one it returns at once and changes nothing
Close ==
  /\ ~falkor.exited
  /\ ~falkor.closing
  /\ falkor.client # NoClient
  /\ falkor' = [falkor EXCEPT !.closing = TRUE]
  /\ UNCHANGED falkorCalls
  /\ UNCHANGED offFalkor

\* index.ts 953-960: client.close() settles or times out; the finally block
\* runs either way
CloseSettles ==
  /\ ~falkor.exited
  /\ falkor.closing
  /\ falkor' = [falkor EXCEPT !.client = NoClient, !.initPromise = NoInit,
                              !.retryCount = 0, !.closing = FALSE]
  /\ UNCHANGED falkorCalls
  /\ UNCHANGED offFalkor

\* The graph service on its own: calls arrive while connection attempts,
\* retry timers and queries settle; a rejected init that nobody awaits is an
\* unhandled rejection, which ends the process
FalkorInit ==
  /\ HttpIdle /\ TenantIdle /\ AuthIdle /\ ErrIdle /\ CrashIdle /\ ToolIdle
  /\ RedisIdle /\ FalkorIdle /\ LogIdle /\ LifeIdle

FalkorNext ==
  \/ FalkorCall
  \/ \E k \in 1..Len(falkor.inits) : InitConnectSettles(k)
  \/ \E k \in 1..Len(falkor.inits) : InitPingSettles(k)
  \/ TimerFires
  \/ \E i \in 1..Len(falkorCalls.pending) : ImportSettles(i)
  \/ \E i \in 1..Len(falkorCalls.pending) : QuerySettles(i)
  \/ Close
  \/ CloseSettles

FalkorSpec == FalkorInit /\ [][FalkorNext]_vars

\* ------------------------------------------------------------ LoggerService
LogMethods ==
  {"info", "warn", "error", "debug", "infoSync", "warnSync", "errorSync", "debugSync"}

\* logger.service.ts 164-195: the variants that do not return a promise
IsSync(method) == method \in {"infoSync", "warnSync", "errorSync", "debugSync"}

\* logger.service.ts 157-161, 190-195: debug logs in development only
Logs(method, nodeEnv) ==
  method \in {"debug", "debugSync"} => nodeEnv = "development"

\* mutant of SendMcpLog: a failed notification rejects the promise
SendMcpLogRejecting(failed) == IF failed # {} THEN "rejected" ELSE "resolved"

\* logger.service.ts 107-124: every notification runs in its own try / catch
\* and the promises are awaited with Promise.allSettled, so the promise of
\* sendMcpLog is fulfilled whichever notifications have failed
SendMcpLog(failed) == "resolved"

\* logger.service.ts 132-161, 167-193: what the caller of the method gets once
\* sendMcpLog has settled; the Sync variants have returned by then and drop a
\* rejection in `.catch(() => {})`
Completed(call, failed) ==
  [call EXCEPT !.pc = "done", !.pending = {}, !.failed = failed,
               !.returned = TRUE,
               !.raised = ~IsSync(call.method) /\ SendMcpLog(failed) = "rejected"]

\* logger.service.ts 50-52
SetMcpServer ==
  /\ logCall.pc \in {"idle", "done"}
  /\ \E server \in 1..MaxServers :
       /\ server \notin logger.mcpServers
       /\ logger' = [logger EXCEPT !.mcpServers = @ \cup {server}]
  /\ UNCHANGED logCall
  /\ UNCHANGED offLog

\* logger.service.ts 58-60
RemoveMcpServer ==
  /\ logCall.pc \in {"idle", "done"}
  /\ \E server \in logger.mcpServers :
       logger' = [logger EXCEPT !.mcpServers = @ \ {server}]
  /\ UNCHANGED logCall
  /\ UNCHANGED offLog

\* logger.service.ts 81-133, 135-195: a logging method is called; the line is
\* appended to the file when file logging is on (a failure of the write is
\* caught), and sendMcpLog calls notification() on every registered server,
\* each of which may throw at once or return a promise
LogCalled ==
  /\ logCall.pc \in {"idle", "done"}
  /\ \E method \in LogMethods, fileFails \in BOOLEAN,
        thrown \in SUBSET logger.mcpServers :
       LET call == [method |-> method, pc |-> "notifying",
                    servers |-> logger.mcpServers,
                    attempted |-> logger.mcpServers,
                    pending |-> logger.mcpServers \ thrown,
                    failed |-> thrown, returned |-> IsSync(method),
                    raised |-> FALSE,
                    written |-> logger.logFile /\ ~fileFails]
       IN /\ fileFails => logger.logFile /\ Logs(method, logger.nodeEnv)
          /\ logCall' =
               IF ~Logs(method, logger.nodeEnv)
                 THEN [call EXCEPT !.pc = "done", !.attempted = {},
                         !.pending = {}, !.failed = {}, !.returned = TRUE,
                         !.written = FALSE]
               ELSE IF call.pending = {} THEN Completed(call, thrown)
               ELSE call
  /\ UNCHANGED logger
  /\ UNCHANGED offLog

\* logger.service.ts 109-120, 124: a notification settles; when it is the last
\* one the promise of sendMcpLog settles
NotificationSettles ==
  /\ logCall.pc = "notifying"
  /\ \E server \in logCall.pending, ok \in BOOLEAN :
       LET failed == IF ok THEN logCall.failed ELSE logCall.failed \cup {server}
       IN logCall' =
            IF logCall.pending = {server}
              THEN Completed(logCall, failed)
              ELSE [logCall EXCEPT !.pending = @ \ {server}, !.failed = failed]
  /\ UNCHANGED logger
  /\ UNCHANGED offLog

\* The logger on its own: the environment fixes file logging and NODE_ENV,
\* session servers come and go, and one logging call is made at a time
LogConfigs ==
  [mcpServers : {{}}, logFile : BOOLEAN, nodeEnv : {"development", "production"}]

LogInit ==
  /\ HttpIdle /\ TenantIdle /\ AuthIdle /\ ErrIdle /\ CrashIdle /\ ToolIdle
  /\ RedisIdle /\ FalkorIdle /\ LifeIdle
  /\ logger \in LogConfigs
  /\ logCall = NoLogCall

LogNext == SetMcpServer \/ RemoveMcpServer \/ LogCalled \/ NotificationSettles

LogSpec == LogInit /\ [][LogNext]_vars

\* -------------------------------------------------------- process lifecycle
ConsoleMethods == {"log", "warn", "info", "debug", "error"}

\* index.ts 29, 33, 37, 41, 46: the tag of the redirected method
Label(method) ==
  CASE method = "log" -> "[LOG]"
    [] method = "warn" -> "[WARN]"
    [] method = "info" -> "[INFO]"
    [] method = "debug" -> "[DEBUG]"
    [] method = "error" -> "[ERROR]"

\* index.ts 29: args.map(String).join(' ')
JoinWithSpaces(args) ==
  IF args = <<>> THEN <<>>
  ELSE [i \in 1..(2 * Len(args) - 1) |->
          IF i % 2 = 1 THEN args[(i + 1) \div 2] ELSE " "]

\* mutant of ConsoleWrite: only console.error is replaced
ConsoleWriteErrorOnly(method, args, redirected) ==
  IF redirected /\ method = "error"
    THEN [method |-> method, args |-> args, redirected |-> redirected,
          stream |-> "stderr", text |-> <<Label(method), " ">> \o JoinWithSpaces(args) \o <<"\n">>]
    ELSE [method |-> method, args |-> args, redirected |-> redirected,
          stream |-> IF method \in {"warn", "error"} THEN "stderr" ELSE "stdout",
          text |-> JoinWithSpaces(args) \o <<"\n">>]

\* index.ts 26-48: what a console call writes; before redirectConsoleToStderr
\* has run the methods are Node's own, which send log, info and debug to
\* stdout and warn and error to stderr
ConsoleWrite(method, args, redirected) ==
  IF redirected
    THEN [method |-> method, args |-> args, redirected |-> redirected,
          stream |-> "stderr", text |-> <<Label(method), " ">> \o JoinWithSpaces(args) \o <<"\n">>]
    ELSE [method |-> method, args |-> args, redirected |-> redirected,
          stream |-> IF method \in {"warn", "error"} THEN "stderr" ELSE "stdout",
          text |-> JoinWithSpaces(args) \o <<"\n">>]

\* index.ts 124-135, 138-151: initializeServices settles; on failure startServer
\* goes to gracefulShutdown('STARTUP_ERROR') with what has been opened
InitializeServices ==
  /\ life.pc = "loaded"
  /\ \E outcome \in {"ok", "graphFails", "kvFails"} :
       life' = CASE outcome = "ok" ->
                      [life EXCEPT !.pc = "initialized", !.graph = "open", !.kv = "open"]
                 [] outcome = "graphFails" ->
                      [life EXCEPT !.pc = "closingHttp", !.shutdown = TRUE,
                                   !.reason = "STARTUP_ERROR"]
                 [] outcome = "kvFails" ->
                      [life EXCEPT !.pc = "closingHttp", !.shutdown = TRUE,
                                   !.reason = "STARTUP_ERROR", !.graph = "open"]
  /\ UNCHANGED streams
  /\ UNCHANGED offLife

\* index.ts 162-244, 147-150: the listener is created and listens; when
\* listen() throws (a port out of range) the listener exists but is not
\* running, and startServer goes to gracefulShutdown('STARTUP_ERROR')
StartHTTPServer ==
  /\ life.pc = "initialized"
  /\ life.transport = "http"
  /\ \E listens \in BOOLEAN :
       life' = IF listens
                 THEN [life EXCEPT !.pc = "serving", !.http = "listening"]
                 ELSE [life EXCEPT !.pc = "closingHttp", !.http = "created",
                                   !.shutdown = TRUE, !.reason = "STARTUP_ERROR"]
  /\ UNCHANGED streams
  /\ UNCHANGED offLife

\* index.ts 153-158: the console is redirected, then the transport is made
\* and server.connect(transport) is awaited
StartStdioServer ==
  /\ life.pc = "initialized"
  /\ life.transport = "stdio"
  /\ life' = [life EXCEPT !.pc = "connecting", !.redirected = TRUE]
  /\ UNCHANGED streams
  /\ UNCHANGED offLife

\* index.ts 158-159, 147-150: the protocol engine is bound to stdin / stdout,
\* or server.connect rejects and startServer goes to
\* gracefulShutdown('STARTUP_ERROR')
StdioConnected ==
  /\ life.pc = "connecting"
  /\ \E connects \in BOOLEAN :
       life' = IF connects
                 THEN [life EXCEPT !.pc = "serving", !.bound = TRUE]
                 ELSE [life EXCEPT !.pc = "closingHttp", !.shutdown = TRUE,
                                   !.reason = "STARTUP_ERROR"]
  /\ UNCHANGED streams
  /\ UNCHANGED offLife

\* a console method is called: console.warn by the Logger constructor while
\* the modules load (logger.service.ts 36), any method by FalkorDBService or a
\* library once requests are served (index.ts 815-817, 899-903, 937-941,
\* 1002), console.error by FalkorDBService.close() (index.ts 955)
Console ==
  /\ life.pc # "exited"
  /\ Len(streams) < MaxWrites
  /\ \E method \in ConsoleMethods, args \in {<<"a">>, <<"a", "b">>} :
       /\ life.pc \in {"loaded", "initialized"} => method = "warn"
       /\ life.pc \in {"closingHttp", "closingGraph", "closingKv"} =>
            method = "error"
       /\ streams' = Append(streams, ConsoleWrite(method, args, life.redirected))
  /\ UNCHANGED life
  /\ UNCHANGED offLife

\* index.ts 51-66, ErrorHandler.ts 54-59: an uncaught exception, or an
\* unhandled rejection rethrown as one, reaches the handler: it is logged,
\* handed to handleError without waiting, and the process exits at once
\* unless the error is trusted
Fault ==
  /\ life.pc # "exited"
  /\ life.faults < MaxFaults
  /\ \E class \in ErrorClasses :
       LET err == [isAppError |-> class.kind = "AppError",
                   isOperational |-> class.isOperational]
       IN life' = [life EXCEPT !.faults = @ + 1, !.logged = @ + 1,
                     !.fault = err,
                     !.pc = CrashIfUntrustedError(err, @),
                     !.exit = ExitCode(err, @),
                     !.exitBy = IF IsTrustedError(err) THEN @ ELSE "crash"]
  /\ UNCHANGED streams
  /\ UNCHANGED offLife

\* index.ts 215-219: a GET for a known session holds its connection open as
\* a stream for as long as the engine and the client wish
StreamOpens ==
  /\ life.pc = "serving"
  /\ life.http = "listening"
  /\ life.open < MaxStreams
  /\ life' = [life EXCEPT !.open = @ + 1]
  /\ UNCHANGED streams
  /\ UNCHANGED offLife

\* the client of a stream disconnects
StreamEnds ==
  /\ life.pc # "exited"
  /\ life.open > 0
  /\ life' = [life EXCEPT !.open = @ - 1]
  /\ UNCHANGED streams
  /\ UNCHANGED offLife

\* index.ts 71-79, 90-91: SIGTERM or SIGINT starts gracefulShutdown, which
\* calls close() on the listener if there is one: the listener stops
\* accepting connections.  A signal that arrives during a shutdown starts
\* gracefulShutdown again: close() on a listener that is no longer running
\* answers with an error, and the catch block exits with code 1
Signal ==
  /\ \/ /\ life.pc \in {"loaded", "initialized", "connecting", "serving"}
        /\ life' = [life EXCEPT !.pc = "closingHttp", !.shutdown = TRUE,
                       !.reason = "signal",
                       !.http = IF @ = "listening" THEN "closing" ELSE @]
     \/ /\ life.pc \in {"closingHttp", "closingGraph", "closingKv"}
        /\ life.http # "none"
        /\ life' = [life EXCEPT !.pc = "exited", !.exit = 1, !.exitBy = "shutdown"]
  /\ UNCHANGED streams
  /\ UNCHANGED offLife

\* index.ts 75-79, 84-86: without a listener the step is skipped; the
\* callback of close() is called with an error when the listener was not
\* running, which ends the shutdown with exit code 1, and otherwise once
\* every connection of the listener has ended
HttpClosed ==
  /\ life.pc = "closingHttp"
  /\ life.http = "closing" => life.open = 0
  /\ life' = CASE life.http = "none" -> [life EXCEPT !.pc = "closingGraph"]
               [] life.http = "closing" ->
                    [life EXCEPT !.pc = "closingGraph", !.http = "closed"]
               [] OTHER ->
                    [life EXCEPT !.pc = "exited", !.exit = 1, !.exitBy = "shutdown"]
  /\ UNCHANGED streams
  /\ UNCHANGED offLife

\* index.ts 80, 950-962: falkorDBService.close() returns whether or not the
\* connection closed cleanly
GraphClosed ==
  /\ life.pc = "closingGraph"
  /\ life' = [life EXCEPT !.pc = "closingKv",
                !.graph = IF @ = "open" THEN "closed" ELSE @]
  /\ UNCHANGED streams
  /\ UNCHANGED offLife

\* index.ts 81-83, redis.service.ts 220-233: redisService.close() returns and
\* the process exits with code 0
KvClosed ==
  /\ life.pc = "closingKv"
  /\ life' = [life EXCEPT !.pc = "exited", !.exit = 0, !.exitBy = "shutdown",
                !.kv = IF @ = "open" THEN "closed" ELSE @]
  /\ UNCHANGED streams
  /\ UNCHANGED offLife

\* The process on its own, from the loading of the modules to its exit, with
\* config.mcp.transport fixed at start-up
LifeInit ==
  /\ HttpIdle /\ TenantIdle /\ AuthIdle /\ ErrIdle /\ CrashIdle /\ ToolIdle
  /\ RedisIdle /\ FalkorIdle /\ LogIdle
  /\ \E transport \in {"stdio", "http"} :
       life = [NotStarted EXCEPT !.transport = transport, !.pc = "loaded"]
  /\ streams = <<>>

LifeNext ==
  \/ InitializeServices
  \/ StartHTTPServer
  \/ StartStdioServer
  \/ StdioConnected
  \/ Console
  \/ Fault
  \/ StreamOpens
  \/ StreamEnds
  \/ Signal
  \/ HttpClosed
  \/ GraphClosed
  \/ KvClosed

LifeSpec == LifeInit /\ [][LifeNext]_vars

\* every step of gracefulShutdown that depends on the process alone is taken:
\* the callback of close() is called once the listener has no connection
\* left, and the close() calls of the two services return.  Nothing makes a
\* client end its stream
LifeFairSpec ==
  LifeSpec /\ WF_vars(HttpClosed) /\ WF_vars(GraphClosed) /\ WF_vars(KvClosed)

\* ==================================================================== claims
\* every request the state knows of: in flight, returned last, or failed
Requests ==
  { handlers[i] : i \in 1..Len(handlers) }
    \cup ({done} \ {NoRequest})
    \cup { rejections[i].req : i \in 1..Len(rejections) }
    \cup { log[i].req : i \in 1..Len(log) }

\* the transport closed: its close callback has fired
ClosedSids ==
  { transports[t].sessionId : t \in { u \in 1..Len(transports) :
      transports[u].closed /\ Truthy(transports[u].sessionId) } }

\* C1: with an API key configured, a request whose Authorization header is
\* absent or differs from "Bearer <key>" is answered 401 and nothing else
\* happens for it: no session lookup, no body read, no routing, no transport,
\* no change of the session table.
C1_UnauthorizedStops ==
  \A r \in Requests :
    (apiKey # "" /\ r.auth # "Bearer " \o apiKey) =>
      /\ r.pc = "done" /\ r.status = 401
      /\ ~r.lookedUp /\ r.body = "unread" /\ r.sid = Undefined
      /\ r.routedTo = NoTransport /\ r.transport = NoTransport
      /\ ~r.mutated

\* a wrong key is rejected while a session is live in the table
C1_Witness ==
  /\ apiKey = "secret"
  /\ done.auth = "Bearer wrong" /\ done.status = 401
  /\ sessions # EmptyMap

\* C2: once the DELETE for session S has been handled, S is not in the table,
\* and every POST that arrives afterwards bearing S is not routed to an engine
\* and, when its handler returns, has been answered 400.
C2_DeletedSessionIsUnknown ==
  /\ \A s \in deleted : ~MapHas(sessions, s)
  /\ \A r \in Requests :
       (r.method = "POST" /\ r.afterDelete) =>
         /\ r.routedTo = NoTransport
         /\ r.pc = "done" => r.status = 400

\* a POST bearing the deleted session's id has been answered 400
C2_Witness ==
  /\ done.method = "POST" /\ done.afterDelete /\ done.sid >= 1
  /\ done.body = "other" /\ done.status = 400

\* C3 (as claimed): a session whose transport has closed, by a handled DELETE
\* or by the close callback, is not in the session table.
C3_ClosedIsTerminal ==
  \A s \in ClosedSids \cup deleted : ~MapHas(sessions, s)

\* C4 (as claimed): a POST bearing an identifier that an initialization
\* response has returned is answered 400 only if that session has been closed
\* or deleted.
C4_ReturnedIdIsAccepted ==
  \A r \in Requests :
    (r.method = "POST" /\ r.sid >= 1 /\ r.pc = "done" /\ r.status = 400) =>
      \/ r.sid \in ClosedSids \cup deleted
      \/ \E i \in 1..Len(handlers) :
           handlers[i].method = "DELETE" /\ handlers[i].sid = r.sid

C6_DeleteAlwaysRemoves ==
  \A r \in Requests :
    (r.method = "DELETE" /\ r.routedTo # NoTransport /\ r.pc \in {"done", "threw"}) =>
      ~MapHas(sessions, r.sid)

\* C7 (as claimed): a POST whose body does not parse is logged by the
\* process-level handlers and the process keeps running.
C7_ParseFailureIsIsolated ==
  \A k \in 1..Len(log) : log[k].err.name = "SyntaxError" => proc = "running"

\* -------------------------------------------------- name resolution claims
Prefixing == mtConfig.enabled /\ mtConfig.tenantGraphPrefix

\* C8 (as claimed): with multi-tenancy and prefixing enabled, two calls made
\* for different (non-empty) tenant identifiers never resolve to the same
\* physical name, and each resolved name starts with the caller's tenant
\* identifier followed by the separator.
C8_NoCrossTenantCollision ==
  Prefixing =>
    \A i, j \in 1..Len(calls) :
      LET a == calls[i]
          b == calls[j]
      IN (/\ a.tenantId.present /\ a.tenantId.id # <<>>
          /\ b.tenantId.present /\ b.tenantId.id # <<>>
          /\ a.tenantId.id # b.tenantId.id) =>
           /\ a.result # b.result
           /\ SubSeq(a.result, 1, Len(a.tenantId.id) + 1) = a.tenantId.id \o <<"_">>

\* C9 (as claimed): resolveGraphName returns the logical name unchanged when
\* multi-tenancy is disabled, prefixing is disabled or the tenant id is
\* absent, and tenantId + "_" + logicalName in every other case.
C9_ResolveAsClaimed ==
  \A k \in 1..Len(calls) :
    calls[k].result =
      IF ~mtConfig.enabled \/ ~mtConfig.tenantGraphPrefix \/ ~calls[k].tenantId.present
        THEN calls[k].graphName
        ELSE calls[k].tenantId.id \o <<"_">> \o calls[k].graphName

\* C9 (amended): resolveGraphName returns the logical name unchanged when
\* multi-tenancy is disabled, prefixing is disabled, or the tenant id is
\* absent or the empty string, and tenantId + "_" + logicalName otherwise.
C9_ResolveTotal ==
  \A k \in 1..Len(calls) :
    calls[k].result =
      IF \/ ~mtConfig.enabled \/ ~mtConfig.tenantGraphPrefix
         \/ ~calls[k].tenantId.present \/ calls[k].tenantId.id = <<>>
        THEN calls[k].graphName
        ELSE calls[k].tenantId.id \o <<"_">> \o calls[k].graphName

\* with prefixing on, one call with an empty tenant id leaves the name alone
\* and one call with tenant "a" prefixes it
C9_Witness ==
  /\ Prefixing /\ Len(calls) = 2
  /\ calls[1].tenantId = [present |-> TRUE, id |-> <<>>]
  /\ calls[1].result = calls[1].graphName
  /\ calls[2].tenantId = [present |-> TRUE, id |-> <<"a">>]
  /\ calls[2].result = <<"a", "_">> \o calls[2].graphName

\* C10 (as claimed): with multi-tenancy and prefixing enabled, an empty tenant
\* id is prefixed like any other: the result is "_" + logicalName.
C10_EmptyTenantPrefixed ==
  \A k \in 1..Len(calls) :
    (Prefixing /\ calls[k].tenantId.present /\ calls[k].tenantId.id = <<>>) =>
      calls[k].result = <<"_">> \o calls[k].graphName

\* C10 (amended): with multi-tenancy and prefixing enabled, an empty tenant id
\* is treated like an absent one: the logical name is returned unchanged.
C10_EmptyTenantUnprefixed ==
  \A k \in 1..Len(calls) :
    (Prefixing /\ calls[k].tenantId.present /\ calls[k].tenantId.id = <<>>) =>
      calls[k].result = calls[k].graphName

\* resolveGraphName has been called with the empty tenant id, prefixing on
C10_Witness ==
  /\ Prefixing /\ Len(calls) >= 1
  /\ calls[1].tenantId = [present |-> TRUE, id |-> <<>>]
  /\ calls[1].graphName = <<"a">> /\ calls[1].result = <<"a">>

\* --------------------------------------------- extraction and filter claims
\* C11 (as claimed): with multi-tenancy and prefixing enabled, for a non-empty
\* tenant id t and a logical name n without "_", extracting from the resolved
\* name gives back {tenantId: t, originalGraphName: n}.
C11_RoundTrip ==
  (Prefixing /\ observed.op = "extract") =>
    LET c == calls[observed.of]
    IN (c.tenantId.present /\ c.tenantId.id # <<>> /\ ~IncludesSeparator(c.graphName)) =>
         observed.result = [isNull |-> FALSE, tenantId |-> c.tenantId.id,
                            originalGraphName |-> c.graphName]

\* the filter's answer for the observed call, the tenant id counting as absent
\* when `absent` holds: the kept names are the answer, in input order, each
\* without the tenant prefix, and a name without "_" is kept for no tenant
FilteredAsSpecified(absent) ==
  LET g == observed.allGraphs
      t == observed.tenantId
      r == observed.result
      keep == IF ~Prefixing THEN 1..Len(g)
              ELSE IF absent THEN { i \in 1..Len(g) : ~IncludesSeparator(g[i]) }
              ELSE { i \in 1..Len(g) : StartsWith(g[i], t.id \o <<"_">>) }
      strip == IF Prefixing /\ ~absent THEN Len(t.id) + 1 ELSE 0
  IN /\ Len(r) = Cardinality(keep)
     /\ \E f \in [1..Len(r) -> keep] :
          /\ \A a, b \in 1..Len(r) : a < b => f[a] < f[b]
          /\ \A k \in 1..Len(r) : r[k] = SubSeq(g[f[k]], strip + 1, Len(g[f[k]]))
          /\ (Prefixing /\ ~absent) =>
               \A k \in 1..Len(r) : IncludesSeparator(g[f[k]])

\* C12 (as claimed): filterGraphsForTenant preserves the input order and
\* returns all names when multi-tenancy or prefixing is disabled, the names
\* without "_" when the tenant id is absent (undefined), and for every present
\* tenant id t exactly the names beginning with t + "_", prefix stripped.
C12_FilterAsClaimed ==
  observed.op = "filter" => FilteredAsSpecified(~observed.tenantId.present)

\* C12 (amended): as C12, the empty tenant id counting as absent: the names
\* without "_" are returned when the tenant id is absent or the empty string,
\* and the names beginning with t + "_", prefix stripped, for a non-empty t.
C12_FilterTotal ==
  observed.op = "filter" =>
    FilteredAsSpecified(~observed.tenantId.present \/ observed.tenantId.id = <<>>)

\* tenant "a" lists the names "a_a" and "a__" and gets "a" and "_", in order
C12_Witness ==
  /\ Prefixing /\ observed.op = "filter"
  /\ observed.tenantId = [present |-> TRUE, id |-> <<"a">>]
  /\ observed.allGraphs = << <<"a", "_", "a">>, <<"a", "_", "_">> >>
  /\ observed.result = << <<"a">>, <<"_">> >>

\* ------------------------------------------------------ authentication claims
\* C13 (as claimed): in bearer-token mode every request passed on to the
\* handler carries the tenant id of its verified token's subject claim, and a
\* request whose token yields no tenant id (no bearer header, undecodable
\* token, failed verification, no subject claim) is answered 401 and is not
\* passed on.
C13_TenantOrReject ==
  (BearerMode(authConfig) /\ authDone.pc = "done") =>
    LET token == authDone.authorization.token
        yields == /\ authDone.authorization.scheme = "Bearer"
                  /\ token.decodes /\ token.kid /\ token.key /\ token.verifies
                  /\ token.sub.present
    IN /\ authDone.next => (authDone.tenantId.present /\ authDone.tenantId = token.sub)
       /\ ~yields => (authDone.status = 401 /\ ~authDone.next)

\* ------------------------------------------------------- sanitizer claims
\* the message part of the result's text, after the "Error: " prefix
ClientMessage == SubSeq(mcpResult.content[1].text, 4, Len(mcpResult.content[1].text))

\* what must not reach a client: a stack frame line, an absolute path, a
\* connection string with credentials, a dotted host with its port, and the
\* value of a labeled secret
HasStackFrame(text) ==
  \E k \in 1..Len(SplitLines(text)) : IsStackLine(SplitLines(text)[k])

HasAbsolutePath(text) ==
  \E i \in 1..Len(text) :
    \/ /\ text[i] = "/" /\ AtomAt(text, i - 1) \notin {":", "/"}
       /\ AtomAt(text, i + 1) \in Words
    \/ /\ text[i] \in DriveLetters /\ AtomAt(text, i + 1) = ":"
       /\ AtomAt(text, i + 2) = "\\" /\ AtomAt(text, i + 3) \in Words

HasCredentialUrl(text) ==
  \E i \in 1..Len(text) :
    /\ text[i] \in {"redis", "mongodb", "postgresql", "falkordb"}
    /\ AtomAt(text, i + 1) = ":" /\ AtomAt(text, i + 2) = "/" /\ AtomAt(text, i + 3) = "/"
    /\ LET user == RunLen(text, i + 4, NonAtNonSpace)
       IN /\ user >= 1 /\ AtomAt(text, i + 4 + user) = "@"
          /\ ~(user = 1 /\ text[i + 4] = "<credentials>")

HasHostPort(text) ==
  \E i \in 1..Len(text) :
    /\ text[i] = "." /\ AtomAt(text, i + 1) \in Digits
    /\ AtomAt(text, i + 2) = ":" /\ AtomAt(text, i + 3) \in Digits

HasLabeledSecret(text) ==
  \E i \in 1..Len(text) :
    /\ text[i] \in {"password", "token", "apikey"}
    /\ AtomAt(text, i + 1) \in {"=", ":"}
    /\ LET value == AtomAt(text, i + 2 + RunLen(text, i + 2, Spaces))
       IN value \in NonSpace /\ value # "<redacted>"

\* C14 (as claimed): whatever failure value reaches toMcpErrorResult, AppError
\* instances included, the text returned to the client is non-empty and holds
\* no stack frame, no absolute path, no connection string with credentials,
\* no bare host:port pair and no labeled secret value.
C14_NeverLeaks ==
  mcpResult # NoResult =>
    /\ mcpResult.content[1].text # <<>>
    /\ ~HasStackFrame(ClientMessage)
    /\ ~HasAbsolutePath(ClientMessage)
    /\ ~HasCredentialUrl(ClientMessage)
    /\ ~HasHostPort(ClientMessage)
    /\ ~HasLabeledSecret(ClientMessage)

\* C15: toMcpErrorResult returns isError = true and exactly one text item,
\* "Error: " followed by: an AppError's message verbatim; a generic Error's
\* sanitized message, or "An error occurred" when the message is empty or
\* sanitizes to the empty string; "An unexpected error occurred" for a value
\* that is not an Error.
C15_ResultByKind ==
  mcpResult # NoResult =>
    /\ mcpResult.isError
    /\ Len(mcpResult.content) = 1
    /\ mcpResult.content[1].type = "text"
    /\ SubSeq(mcpResult.content[1].text, 1, 3) = <<"Error", ":", " ">>
    /\ ClientMessage =
         IF failure.kind = "AppError" THEN failure.message
         ELSE IF failure.kind = "Error"
           THEN LET redacted == RedactionPasses(failure.message)
                IN IF failure.message = <<>> \/ redacted = <<>>
                     THEN <<"An", " ", "error", " ", "occurred">>
                     ELSE redacted
           ELSE <<"An", " ", "unexpected", " ", "error", " ", "occurred">>

\* a generic Error whose message is one stack frame line sanitizes to the
\* empty string and is reported as "Error: An error occurred"
C15_Witness ==
  /\ failure.kind = "Error"
  /\ failure.message = <<"at", " ", "x">>
  /\ mcpResult # NoResult
  /\ mcpResult.content[1].text = <<"Error", ":", " ", "An", " ", "error", " ", "occurred">>

\* C16 (as claimed): sanitizing an already sanitized message changes nothing.
C16_Idempotent ==
  Len(sanitized) = 2 => sanitized[2] = sanitized[1]

\* ------------------------------------------------------------ crash claims
\* C20: crashIfUntrustedError ends the process with exit code 1 exactly when
\* the error is not an AppError with isOperational true; for an operational
\* AppError the process keeps running and no crash log is written.
C20_CrashIffUntrusted ==
  crashChecked =>
    LET operational == failure.kind = "AppError" /\ failure.isOperational
    IN /\ (proc = "exited" /\ exitCode = 1) <=> ~operational
       /\ operational => (proc = "running" /\ exitCode = Undefined /\ crashLog = <<>>)
       /\ ~operational => Len(crashLog) = 1

\* crashIfUntrustedError has been called with an operational AppError
C20_Witness ==
  /\ crashChecked
  /\ failure.kind = "AppError" /\ failure.isOperational
  /\ proc = "running" /\ crashLog = <<>>

\* ------------------------------------------------------- tool handler claims
\* C17: a tool handler never lets an exception escape: whatever fails
\* (validation or the backend call), the handler logs the error and returns a
\* result with isError = true instead of throwing.
C17_HandlersNeverThrow ==
  /\ toolCall.pc # "threw"
  /\ (toolCall.pc = "returned" /\ toolCall.error # NoError) =>
       /\ toolCall.result.isError
       /\ \E k \in 1..Len(toolLog) : toolLog[k].error = toolCall.error

EffectiveReadOnly(cfg, args) ==
  IF args.readOnly # "undefined" THEN args.readOnly = "true" ELSE cfg.defaultReadOnly

\* C18: in strict read-only mode query_graph whose effective read-only flag is
\* false fails with INVALID_INPUT before executeQuery is called, every
\* executeQuery call has readOnly = true, and delete_graph fails with
\* INVALID_INPUT without calling deleteGraph.
C18_StrictReadOnly ==
  (toolConfig.strictReadOnly /\ toolCall.pc # "idle") =>
    /\ \A k \in 1..Len(backendCalls) :
         /\ backendCalls[k].op # "deleteGraph"
         /\ backendCalls[k].op = "executeQuery" => backendCalls[k].readOnly = <<TRUE>>
    /\ (toolCall.tool = "query_graph"
          /\ ~EffectiveReadOnly(toolConfig, toolCall.args)) =>
         /\ toolCall.error.isAppError
         /\ toolCall.error.name = "INVALID_INPUT"
         /\ toolCall.pc \in {"logError", "threw"}
         /\ backendCalls = <<>>
    /\ toolCall.tool = "delete_graph" =>
         /\ toolCall.error.isAppError
         /\ toolCall.error.name = "INVALID_INPUT"
         /\ toolCall.pc \in {"logError", "threw"}
         /\ backendCalls = <<>>

\* strict mode has refused a well-formed query_graph call that falls back to
\* a default of read-write
C18_Witness ==
  /\ toolConfig.strictReadOnly /\ ~toolConfig.defaultReadOnly
  /\ toolCall.tool = "query_graph"
  /\ toolCall.args.graphName = <<"x">> /\ toolCall.args.query = <<"x">>
  /\ toolCall.args.readOnly = "undefined"
  /\ toolCall.pc = "threw"
  /\ toolCall.error.name = "INVALID_INPUT"
  /\ backendCalls = <<>>

\* the required text inputs of each tool
RequiredInputs(tool, args) ==
  CASE tool \in {"query_graph", "query_graph_readonly"} -> {args.graphName, args.query}
    [] tool = "delete_graph" -> {args.graphName}
    [] tool \in {"set_key", "get_key", "delete_key"} -> {args.key}
    [] OTHER -> {}

\* C19: a tool call with an empty or whitespace-only graph name, query text or
\* key fails with an INVALID_INPUT AppError and makes no call to the graph
\* backend or the key-value store.
C19_ValidationFirst ==
  (toolCall.pc # "idle"
     /\ \E text \in RequiredInputs(toolCall.tool, toolCall.args) :
          \A k \in 1..Len(text) : text[k] = " ") =>
    /\ toolCall.error.isAppError
    /\ toolCall.error.name = "INVALID_INPUT"
    /\ toolCall.pc \in {"logError", "threw"}
    /\ backendCalls = <<>>

\* set_key with a whitespace-only key has failed without touching the store
C19_Witness ==
  /\ toolCall.tool = "set_key"
  /\ toolCall.args.key = <<" ">>
  /\ toolCall.pc = "threw"
  /\ toolCall.error.name = "INVALID_INPUT"
  /\ backendCalls = <<>>

\* ---------------------------------------------------- session table claims
\* C29 (as claimed): no suspension point lies between a request's look-up in
\* the session table (or its finding that there is no session) and the table
\* mutation based on it: no handler is suspended with its mutation still to come.
C29_LookupAndMutationInOneTurn ==
  \A i \in 1..Len(handlers) :
    handlers[i].pc \notin {"connect", "initEngine", "initResume", "delEngine", "delResume"}

\* C30: each key of the session table is the session id of the transport it
\* maps to; no two keys map to the same transport, and the transports of two
\* sessions have different protocol-engine instances; an identifier that has
\* been removed from the table is not in the table again.
C30_SessionTableInvariant ==
  /\ \A sid \in DOMAIN sessions : transports[sessions[sid]].sessionId = sid
  /\ \A a, b \in DOMAIN sessions :
       a # b => /\ sessions[a] # sessions[b]
                /\ transports[sessions[a]].engine # transports[sessions[b]].engine
  /\ \A sid \in removed : ~MapHas(sessions, sid)

\* one session has been removed from the table while another one is in it
C30_Witness ==
  /\ removed # {}
  /\ DOMAIN sessions # {}
  /\ Len(transports) = 2

\* ------------------------------------------------------ key-value service claims
\* the calls to initialize / to the key operations that have been made
InitializeCalls == {i \in 1..Len(redisCalls) : redisCalls[i].op = "initialize"}
KeyCalls == {i \in 1..Len(redisCalls) : redisCalls[i].op \in KeyOperations}

\* C22: a call to initialize made while an initialization is in progress
\* creates no client of its own and does not resolve before that
\* initialization has completed
C22_SingleFlight ==
  \A i \in InitializeCalls :
    redisCalls[i].joined =>
      /\ redisCalls[i].created = 0
      /\ ~(redisCalls[i].pc = "done" /\ redisCalls[i].early)

\* what C23 says of the states: one initialization makes at most
\* maxRetries + 1 attempts, and a call that waited for it either resolves with
\* a client and retryCount = 0 or rejects with CONNECTION_FAILED, no client
\* and no promise left
C23_Outcome ==
  /\ redis.attempt + 1 <= maxRetries + 1
  /\ \A i \in InitializeCalls :
       LET c == redisCalls[i]
       IN c.pc = "done" /\ c.entry = NoClient =>
            /\ c.outcome \in {"resolved", "CONNECTION_FAILED"}
            /\ ~c.after.initializingPromise
            /\ c.outcome = "resolved" =>
                 c.after.client # NoClient /\ c.after.retryCount = 0
            /\ c.outcome = "CONNECTION_FAILED" => c.after.client = NoClient

C24_Errors ==
  \A i \in KeyCalls :
    LET c == redisCalls[i]
    IN /\ c.entry = NoClient =>
            /\ ~c.touched
            /\ c.pc = "done"
            /\ c.outcome = "CONNECTION_FAILED"
            /\ c.message = "Redis client not initialized. Call initialize() first."
       /\ c.entry # NoClient => c.outcome # "CONNECTION_FAILED"
       /\ c.outcome = "OPERATION_FAILED" =>
            /\ c.touched
            /\ \E cause \in {"boom", "Socket closed unexpectedly"} :
                 c.message = OperationFailedMessage(c.op, cause)

\* a step that starts, continues or ends a key operation
KeyOperationStep ==
  \E i \in 1..Len(redisCalls') :
    /\ redisCalls'[i].op \in KeyOperations
    /\ i \in 1..Len(redisCalls) => redisCalls'[i] # redisCalls[i]

\* C24: a key operation called before setup fails with CONNECTION_FAILED
\* without touching the store, one whose store call fails is rejected with an
\* OPERATION_FAILED error wrapping the failure, and no step of a key operation
\* changes the service's client
C24_KeyOperationErrors ==
  /\ []C24_Errors
  /\ [][KeyOperationStep => redis' = redis]_vars

\* one operation has failed for want of a client and another in the store
C24_Witness ==
  /\ \E i \in KeyCalls : redisCalls[i].outcome = "CONNECTION_FAILED"
  /\ \E i \in KeyCalls : redisCalls[i].outcome = "OPERATION_FAILED"

\* ---------------------------------------------------------- graph service claims
\* the failures the claim calls connection-class
ConnectionClass ==
  {<<"Connection", "lost">>, <<"Query", "execution", "timeout">>,
   <<"connect", "ECONNREFUSED">>, <<"getaddrinfo", "ENOTFOUND">>,
   <<"Network", "unreachable">>, <<"Socket", "closed">>, <<"Ping", "timeout">>}


\* what C25 says of a call that has just failed
C25_Reset ==
  falkorCalls.last.outcome = "rejected" =>
    IF falkorCalls.last.error \in ConnectionClass
      THEN falkorCalls.last.cleared
      ELSE falkorCalls.last.unchanged

C26_RetryCeiling == falkor.retryCount <= maxRetries

\* ------------------------------------------------------------ logger claims
\* C27: a logging call never raises an error to its caller; when it logs, a
\* notification is attempted on every registered server whichever of them
\* fail, and a Sync variant has returned before any of them settles
C27_DeliveryNeverRaises ==
  /\ ~logCall.raised
  /\ logCall.pc # "idle" /\ Logs(logCall.method, logger.nodeEnv) =>
       logCall.attempted = logCall.servers
  /\ logCall.pc = "done" => logCall.returned /\ logCall.pending = {}
  /\ IsSync(logCall.method) => logCall.returned

\* an awaited logging call has completed although the notification to one
\* server failed and the one to another went through
C27_Witness ==
  /\ logCall.pc = "done"
  /\ ~IsSync(logCall.method)
  /\ logCall.failed # {}
  /\ logCall.attempted \ logCall.failed # {}

\* ------------------------------------------------------- process lifecycle claims
\* C21: every uncaught exception and unhandled rejection is logged by the
\* process-level handler, which attempts the graceful shutdown of the HTTP
\* listener, the graph connection and the key-value connection and then exits
\* if and only if the error is not a trusted operational error
C21_HandlerShutsDownGracefully ==
  /\ life.logged = life.faults
  /\ life.exitBy = "crash" <=> (life.faults > 0 /\ ~IsTrustedError(life.fault))
  /\ life.exitBy = "crash" =>
       /\ life.shutdown
       /\ life.http # "listening" /\ life.graph # "open" /\ life.kv # "open"

\* the text the claim expects of a redirected console call
C28_Line(method, args) ==
  << CASE method = "log" -> "[LOG]" [] method = "warn" -> "[WARN]"
       [] method = "info" -> "[INFO]" [] method = "debug" -> "[DEBUG]"
       [] method = "error" -> "[ERROR]",
     " " >> \o JoinWithSpaces(args) \o <<"\n">>

AnsweredStep ==
  \/ arrived' = arrived + 1 /\ handlers' = handlers
  \/ Len(handlers') < Len(handlers) /\ rejections' = rejections

\* the answered request is an initialization POST whose handshake assigned no
\* session identifier to the transport created for it
NoIdentifierAssigned ==
  /\ done'.transport # NoTransport
  /\ ~Truthy(transports'[done'.transport].sessionId)

\* C31 (as stated): a request answered 401, 400 or 405 adds and removes no
\* entry of the session table, and an initialization POST whose handshake
\* assigns no session identifier registers no session.
C31_RejectedLeavesTable ==
  /\ [][AnsweredStep /\ done'.status \in {400, 401, 405} => sessions' = sessions]_vars
  /\ [][AnsweredStep /\ NoIdentifierAssigned => sessions' = sessions]_vars

\* the answered request is a DELETE that was handed to the engine of a known
\* session (index.ts 226-229)
DeleteHandedOff == done'.method = "DELETE" /\ done'.routedTo # NoTransport

\* C31 (amended): a request answered 401, 400 or 405 adds and removes no entry
\* of the session table unless it is a DELETE for a known session, whose entry
\* is removed whatever the engine answered; and an initialization POST whose
\* handshake assigns no session identifier registers no session.
C31_RejectedBySessionManager ==
  /\ [][AnsweredStep /\ done'.status \in {400, 401, 405} /\ ~DeleteHandedOff
          => sessions' = sessions]_vars
  /\ [][AnsweredStep /\ DeleteHandedOff => done'.sid \notin DOMAIN sessions']_vars
  /\ [][AnsweredStep /\ NoIdentifierAssigned => sessions' = sessions]_vars

\* a POST for an unknown session has been answered 400 while the table holds
\* a session, and an initialization whose handshake assigned no identifier
\* has created a transport
C31_Witness ==
  /\ done.status = 400 /\ done.method = "POST" /\ done.lookedUp /\ ~done.hit
  /\ DOMAIN sessions # {}
  /\ \E t \in 1..Len(transports) : ~Truthy(transports[t].sessionId)


\* ------------------------------------------- concurrent graph calls (C32)
\* C32: once executeQuery's check after ensureInitialized has found a client,
\* the call never dereferences a null client: no call that passed the check
\* ends with the TypeError of a null dereference, whatever other calls and
\* close() do while it is suspended.
C32_NoNullDereference ==
  ~(falkorCalls.last.phase = "query" /\ falkorCalls.last.outcome = "rejected"
    /\ falkorCalls.last.error = NullDereference)

\* ------------------------------------- key operations during connection (C33)
\* C33: wherever another caller can run, a client that is set has completed
\* connect and ping, and a key operation called while an initialization is in
\* progress fails with the 'not initialized' error instead of running against
\* the store.
C33_ClientSetOnlyWhenConnected ==
  /\ redis.client # NoClient => redis.pc = "none"
  /\ \A i \in KeyCalls :
       redisCalls[i].joined =>
         /\ ~redisCalls[i].touched
         /\ redisCalls[i].outcome = "CONNECTION_FAILED"

\* ----------------------------------------------------- close is final (C34)
\* C34: when close() resolves, client is null and retryCount is 0, and client
\* stays null until initialize() is called again, also when close() ran while
\* an initialization was in progress.
C34_CloseIsFinal ==
  /\ [](redis.closed => redis.client = NoClient)
  /\ [][~redis.closed /\ redis.closed' => redis.retryCount' = 0]_vars

\* ------------------------------------------------ listing and access (C35)
\* C35: with multi-tenancy and prefixing enabled, validateTenantAccess grants
\* a caller a logical name only if filterGraphsForTenant lists that name for
\* the same caller and the same physical names.
C35_AccessOnlyToListed ==
  (Prefixing /\ observed.op = "access" /\ observed.result) =>
    LET listed == FilterGraphsForTenant(mtConfig, observed.allGraphs, observed.tenantId)
    IN \E k \in 1..Len(listed) : listed[k] = observed.graphName

\* ------------------------------------------- notification targets (C36)
\* the servers of the sessions that have not been closed: those of the
\* transports that are open and whose session has not been taken out of the
\* session table
LiveServers ==
  {transports[t].engine : t \in {u \in 1..Len(transports) :
     ~transports[u].closed /\ transports[u].sessionId \notin removed}}

\* C36: the logger's notification targets are servers of live sessions only:
\* once a session is closed by DELETE or by the transport's close callback,
\* its server is no longer registered with the logger.
C36_TargetsAreLive == logger.mcpServers \subseteq LiveServers

\* ------------------------------------------------ shutdown and start-up (C37, C38)
\* C37: after SIGTERM or SIGINT the process eventually calls process.exit,
\* also while HTTP sessions hold streaming connections open; the code is 0
\* when the listener, the graph backend and the key-value store were closed
\* in that order.
C37_ShutdownTerminates ==
  /\ (life.reason = "signal") ~> (life.pc = "exited")
  /\ [](life.exitBy = "shutdown" /\ life.exit = 0 =>
          life.http # "closing" /\ life.graph # "open" /\ life.kv # "open")

\* C38: when service initialization or transport start-up fails, the process
\* exits with a non-zero status.
C38_StartupFailureExitsNonZero ==
  (life.reason = "STARTUP_ERROR" /\ life.pc = "exited") => life.exit # 0

====
